---- MODULE Spec2Model ----
(***************************************************************************)
(* Model of the workflow orchestration engine of app/core/orchestrator.py  *)
(* (class Orchestrator) with the parts of app/core/role_negotiation.py it  *)
(* calls.                                                                  *)
(*                                                                         *)
(* Python values are modelled as follows.                                  *)
(*  - A Python str is a sequence of atoms; the atoms "$", "{", "}" and "." *)
(*    are the characters the code inspects, every other atom stands for a  *)
(*    run of characters without those four.                                *)
(*  - A dict key, a step id, an agent id is an atom (a TLA+ string); a     *)
(*    Python str used as a key is turned into its atom by AtomKey.         *)
(*  - A JSON-like value (a context, a tool result, an input) is a tree: a  *)
(*    function from the paths below its root to node values, a node being  *)
(*    a dict (MapV), a str (StrV(s)) or None (NoneV).                      *)
(***************************************************************************)
EXTENDS Integers, Sequences, FiniteSets, TLC

\* ------------------------------------------------------------ bounds
MaxInstances == 1
MaxPairInstances == 2
MaxStarted == 3
MaxRoleAssignments == 1
MaxRoleQueue == 2
MaxUuids == 2
MaxTime == 2
MaxBusUuids == 4
MaxCallbacks == 2
MaxAssignments == 2
MaxSteps == 2

\* ------------------------------------------------------------ values
None == "None"

Truthy(x) == x # None /\ x # ""

MapV == [kind |-> "map", s |-> <<>>]

NoneV == [kind |-> "none", s |-> <<>>]

StrV(s) == [kind |-> "str", s |-> s]

Leaf(v) == (<<>> :> v)

EmptyDict == Leaf(MapV)

NoneTree == Leaf(NoneV)

IsPrefix(p, q) == Len(p) <= Len(q) /\ SubSeq(q, 1, Len(p)) = p

\* the value found at path `at` of tree t (at \in DOMAIN t)
SubTree(t, at) ==
  LET below == {p \in DOMAIN t : IsPrefix(at, p)}
      rel == {SubSeq(p, Len(at) + 1, Len(p)) : p \in below}
  IN [q \in rel |-> t[at \o q]]

\* d[path] = sub, for a path whose parent is a dict of t
ReplaceSub(t, at, sub) ==
  LET keep == {p \in DOMAIN t : ~IsPrefix(at, p)}
      new == {at \o q : q \in DOMAIN sub}
  IN [p \in keep \cup new |->
        IF p \in new THEN sub[SubSeq(p, Len(at) + 1, Len(p))] ELSE t[p]]

\* for part in path: value = value[part]; a KeyError (missing key) or a
\* TypeError (indexing a str or None with a str) ends the walk with ok = FALSE
RECURSIVE WalkFrom(_, _, _)
WalkFrom(t, at, path) ==
  IF path = <<>> THEN [ok |-> TRUE, at |-> at]
  ELSE IF t[at] # MapV THEN [ok |-> FALSE, at |-> at]
  ELSE IF Append(at, Head(path)) \notin DOMAIN t THEN [ok |-> FALSE, at |-> at]
  ELSE WalkFrom(t, Append(at, Head(path)), Tail(path))

\* ------------------------------------------------------------ strings
StartsWith2(v, a, b) == Len(v) >= 2 /\ v[1] = a /\ v[2] = b

EndsWith(v, a) == Len(v) >= 1 /\ v[Len(v)] = a

\* the first index of atom a in v, 0 when there is none
FirstIndex(v, a) ==
  IF \E k \in 1..Len(v) : v[k] = a
  THEN CHOOSE k \in 1..Len(v) : v[k] = a /\ \A j \in 1..(k - 1) : v[j] # a
  ELSE 0

\* str.split("."): the segments between the dots, as strs
RECURSIVE SplitDots(_)
SplitDots(v) ==
  LET k == FirstIndex(v, ".")
  IN IF k = 0 THEN <<v>>
     ELSE <<SubSeq(v, 1, k - 1)>> \o SplitDots(SubSeq(v, k + 1, Len(v)))

\* a str as a dict key: a one-atom str is its atom, the empty str is "";
\* every longer str is a key that no dict of the model holds
AtomKey(seg) ==
  IF Len(seg) = 1 THEN seg[1] ELSE IF seg = <<>> THEN "" ELSE "<compound>"

\* value.split(".") as a path of keys
PathOf(v) == [k \in 1..Len(SplitDots(v)) |-> AtomKey(SplitDots(v)[k])]

\* ------------------------------------------------------------ step helpers
\* ResolveValue that leaves an unresolved template as it is
ResolveValueKeep(ctx, value) ==
  IF StartsWith2(value, "$", "{") /\ EndsWith(value, "}")
  THEN LET path == PathOf(SubSeq(value, 3, Len(value) - 1))
           w == WalkFrom(ctx, <<>>, path)
       IN IF w.ok THEN SubTree(ctx, w.at) ELSE Leaf(StrV(value))
  ELSE Leaf(StrV(value))

\* _execute_workflow_step, the input loop: a str of the form ${...} is
\* looked up in the context along value[2:-1].split("."), an unresolved
\* path gives None; any other value is passed on as it is
ResolveValue(ctx, value) ==
  IF StartsWith2(value, "$", "{") /\ EndsWith(value, "}")
  THEN LET path == PathOf(SubSeq(value, 3, Len(value) - 1))
           w == WalkFrom(ctx, <<>>, path)
       IN IF w.ok THEN SubTree(ctx, w.at) ELSE NoneTree
  ELSE Leaf(StrV(value))

ResolveInputs(ctx, inputs) ==
  [k \in DOMAIN inputs |-> ResolveValue(ctx, inputs[k])]

\* RoleManager.get_active_assignments_for_role: the active assignments of
\* the role, in the order of the assignment map (insertion order)
GetActiveAssignmentsForRole(assignments, role_id) ==
  SelectSeq(assignments, LAMBDA a : a.role_id = role_id)

\* ResolveAgent that asks the role before the per-step assignment and takes
\* the newest assignment of the role
ResolveAgentRoleLast(inst, step, assignments) ==
  LET as == GetActiveAssignmentsForRole(assignments, step.role_required)
  IN IF Truthy(step.role_required) /\ as # <<>> THEN as[Len(as)].agent_id
     ELSE IF step.id \in DOMAIN inst.agent_assignments
     THEN inst.agent_assignments[step.id]
     ELSE None

\* _execute_workflow_step, "Determine agent to execute step"
ResolveAgent(inst, step, assignments) ==
  IF step.id \in DOMAIN inst.agent_assignments
  THEN inst.agent_assignments[step.id]
  ELSE IF Truthy(step.role_required)
  THEN LET as == GetActiveAssignmentsForRole(assignments, step.role_required)
       IN IF as # <<>> THEN as[1].agent_id ELSE None
  ELSE None

\* "if not agent_id or agent_id not in self.agents" is false
AgentUsable(agent_id, registered) == Truthy(agent_id) /\ agent_id \in registered

\* _execute_workflow_step, "Process result" and "Add execution metadata": a
\* non-dict result is wrapped, then status, execution_time and agent_id are set
BuildResult(out, agent_id) ==
  LET rd == IF out[<<>>] = MapV THEN out
            ELSE ReplaceSub(EmptyDict, <<"result">>, out)
      r1 == ReplaceSub(rd, <<"status">>, Leaf(StrV(<<"success">>)))
      r2 == ReplaceSub(r1, <<"execution_time">>, Leaf(StrV(<<"seconds">>)))
  IN ReplaceSub(r2, <<"agent_id">>, Leaf(StrV(<<agent_id>>)))

\* the result of a step that declares no tool
PassThroughResult == ReplaceSub(EmptyDict, <<"status">>, Leaf(StrV(<<"success">>)))

\* _map_step_outputs_to_context, "Navigate to the right level" and "Set the
\* value": missing intermediate dicts are created; reaching a str or None
\* on the way raises TypeError (ok = FALSE) and keeps what was created
RECURSIVE NavigateAndSet(_, _, _, _)
NavigateAndSet(t, at, parts, value) ==
  IF t[at] # MapV THEN [ok |-> FALSE, tree |-> t]
  ELSE IF Len(parts) = 1
  THEN [ok |-> TRUE, tree |-> ReplaceSub(t, Append(at, parts[1]), value)]
  ELSE LET nxt == Append(at, Head(parts))
           t2 == IF nxt \in DOMAIN t THEN t ELSE ReplaceSub(t, nxt, EmptyDict)
       IN NavigateAndSet(t2, nxt, Tail(parts), value)

\* one (output_path, context_path) entry of the output mapping
MapOneOutput(ctx, result, output_path, context_path) ==
  LET w == WalkFrom(result, <<>>, PathOf(output_path))
  IN IF output_path # <<"$">> /\ ~w.ok
     THEN [ok |-> TRUE, tree |-> ctx]
     ELSE NavigateAndSet(ctx, <<>>, PathOf(context_path),
                         IF output_path = <<"$">> THEN result
                         ELSE SubTree(result, w.at))

\* _map_step_outputs_to_context: the entries in the order of the mapping;
\* the first one that raises ends the loop
RECURSIVE MapStepOutputsToContext(_, _, _)
MapStepOutputsToContext(ctx, result, mapping) ==
  IF mapping = <<>> THEN [ok |-> TRUE, tree |-> ctx]
  ELSE LET one == MapOneOutput(ctx, result, mapping[1][1], mapping[1][2])
       IN IF one.ok THEN MapStepOutputsToContext(one.tree, result, Tail(mapping))
          ELSE one

\* the key result.get("status", "default") looks up in the transitions
ResultKey(result) ==
  IF <<"status">> \in DOMAIN result
  THEN LET v == result[<<"status">>]
       IN IF v.kind = "str" THEN AtomKey(v.s) ELSE "<unhashable>"
  ELSE "default"

\* NextStep without the fallback to the "default" entry
NextStepNoDefault(wf, step_id, result) ==
  IF step_id \in DOMAIN wf.transitions
       /\ ResultKey(result) \in DOMAIN wf.transitions[step_id]
  THEN wf.transitions[step_id][ResultKey(result)]
  ELSE None

\* NextStep that goes back to the first step of the workflow
NextStepFirst(wf, step_id, result) == wf.steps[1].id

\* _execute_workflow_instance, "Determine next step"
NextStep(wf, step_id, result) ==
  IF step_id \in DOMAIN wf.transitions
  THEN LET transitions == wf.transitions[step_id]
           result_key == ResultKey(result)
       IN IF result_key \in DOMAIN transitions THEN transitions[result_key]
          ELSE IF "default" \in DOMAIN transitions THEN transitions["default"]
          ELSE None
  ELSE None

\* next((s for s in workflow.steps if s.id == step_id), None): the index of
\* the first step with that id, 0 when there is none
FindStep(wf, step_id) ==
  IF \E k \in 1..Len(wf.steps) : wf.steps[k].id = step_id
  THEN CHOOSE k \in 1..Len(wf.steps) :
         /\ wf.steps[k].id = step_id
         /\ \A j \in 1..(k - 1) : wf.steps[j].id # step_id
  ELSE 0

\* ------------------------------------------------------------ workflows
Step(id, role, tool, inputs, mapping, on_failure) ==
  [id |-> id, role_required |-> role, tool_required |-> tool,
   inputs |-> inputs, output_mapping |-> mapping, on_failure |-> on_failure]

NoInputs == [k \in {} |-> <<>>]

NoTransitions == [k \in {} |-> [j \in {} |-> None]]

TplUserName == <<"$", "{", "context", ".", "user", ".", "name", "}">>

TplBare == <<"$", "{", "user", ".", "name", "}">>

\* the registered workflow definitions
Workflows ==
  [ W0 |-> [steps |-> <<>>, transitions |-> NoTransitions, initial_step_id |-> None],
    W1 |-> [steps |-> << Step("S1", "r1", "t",
                              ("x" :> TplUserName) @@ ("y" :> <<"lit">>)
                                @@ ("z" :> TplBare),
                              << << <<"result">>, <<"out", ".", "value">> >> >>,
                              None),
                         Step("S2", "r1", None, NoInputs,
                              << << <<"$">>, <<"user", ".", "last">> >> >>,
                              None) >>,
               transitions |-> ("S1" :> ("success" :> "S2")),
               initial_step_id |-> None],
    W2 |-> [steps |-> << Step("S1", None, "t", ("x" :> TplUserName),
                              << << <<"status">>, <<"last", ".", "status">> >> >>,
                              "S3"),
                         Step("S2", "r1", None, NoInputs,
                              << << <<"$">>, <<"done">> >> >>,
                              "ghost"),
                         Step("S3", "r1", None, NoInputs, <<>>, None) >>,
               transitions |-> ("S1" :> ("default" :> "S2"))
                                 @@ ("S2" :> ("error" :> "S3")),
               initial_step_id |-> "S1"],
    W3 |-> [steps |-> << Step("S1", "r1", None, NoInputs, <<>>, None) >>,
               transitions |-> NoTransitions,
               initial_step_id |-> "ghost"],
    W4 |-> [steps |-> << Step("S1", "r1", "t", NoInputs, <<>>, "S1") >>,
               transitions |-> ("S1" :> ("success" :> "ghost")),
               initial_step_id |-> "S1"] ]

WorkflowIds == DOMAIN Workflows

\* the initial contexts start_workflow is called with
CtxAda == ReplaceSub(ReplaceSub(EmptyDict, <<"user">>, EmptyDict),
                     <<"user", "name">>, Leaf(StrV(<<"Ada">>)))

CtxBob == ReplaceSub(EmptyDict, <<"user">>, Leaf(StrV(<<"Bob">>)))

\* the calls start_workflow(workflow_id, initial_context) of the model
StartCalls ==
  ({"W1"} \X {EmptyDict, CtxAda, CtxBob})
    \cup ({"W0", "W2", "W3", "W4", "nowf"} \X {EmptyDict})

\* the calls start_workflow(workflow_id, initial_context) where several
\* instances are run
PairCalls == {<<"W2", EmptyDict>>}

\* what the tool function of a step hands back: a dict, a non-dict value,
\* or an exception (also raised by Agent.execute_tool itself)
ToolReturns ==
  { ReplaceSub(EmptyDict, <<"status">>, Leaf(StrV(<<"error">>))),
    Leaf(StrV(<<"v">>)) }

AgentIds == {"a1", "a2"}

RoleIds == {"r1"}

\* ------------------------------------------------------------ state
VARIABLES
  instances,         \* Orchestrator.instances: instance id (1, 2, ...) -> WorkflowInstance
  tasks,             \* the coroutine _execute_workflow_instance of each instance
  hist,              \* history: steps started, cancel returned True, events emitted
  ready,             \* the event loop's queue of tasks created and not yet begun
  cur,               \* the instance whose task the event loop is running, 0 for none
  agents,            \* Orchestrator.agents: the registered agent ids
  role_assignments,  \* RoleManager._role_assignments, in insertion order
  memory,            \* an AgentMemory: memories, _tags_index, _context_index
  access_permissions,\* SharedMemory._access_permissions of the pool around it
  now,               \* datetime.now(), in ticks
  uuids,             \* how many values uuid.uuid4() has handed out
  ret,               \* the last call to the SharedMemory and what it returned
  bus,               \* a MessageBus: channels, direct_channels, topic_channels, callbacks
  sent,              \* the last call to the MessageBus and what it returned
  manager,           \* a RoleManager: _roles with _role_requirements,
                     \* _role_assignments (with ids), _assignment_history
  teams,             \* TeamFormation.teams of the TeamFormation around it
  outcome,           \* the last call to the RoleManager or the TeamFormation
                     \* and what it returned
  executed,          \* the last call to ToolExecutor.execute_composition: the
                     \* tools it called and what it returned
  registry_instances,\* ToolRegistryMeta._instances: registry class -> the tools
                     \* of its one ToolRegistry, and who registered them
  called             \* the last call to Agent.execute_tool and how it ended, with
                     \* the agent types that had registered the tool by then

\* the state of the orchestrator and its role manager
orchvars == <<instances, tasks, hist, ready, cur, agents, role_assignments>>

\* the state of the memory classes and of the clock
memvars == <<memory, access_permissions, now, uuids, ret>>

\* the state of the message bus
busvars == <<bus, sent>>

\* the tool registries of the agents
toolvars == <<registry_instances, called>>

\* the state of the role manager with its teams, of the tool executor and of
\* the tool registries
rolevars == <<manager, teams, outcome, executed, toolvars>>

vars == <<instances, tasks, hist, ready, cur, agents, role_assignments, memvars,
          busvars, rolevars>>

Terminal == {"completed", "failed", "cancelled"}

InstanceIds == 1..Len(instances)

WorkflowOf(i) == Workflows[instances[i].workflow_id]

\* the frame of instance i: its WorkflowInstance, its coroutine, its history
Frame(i) == [inst |-> instances[i], task |-> tasks[i], hist |-> hist[i]]

Emit(h, event) == [h EXCEPT !.events = @ \cup {event}]

\* the locals of a coroutine that has not begun
NewTask == [pc |-> "none", step_id |-> None, resolved |-> NoInputs,
            agent_id |-> None, result |-> EmptyDict]

\* the coroutine has returned: its locals are gone
EndedTask == [NewTask EXCEPT !.pc = "done"]

\* _complete_workflow_instance (no workflow of the model sets on_complete)
CompleteWorkflowInstance(f) ==
  [inst |-> [f.inst EXCEPT !.status = "completed", !.completed_at = "set"],
   task |-> EndedTask,
   hist |-> Emit(f.hist, "workflow_completed")]

\* _fail_workflow_instance
FailWorkflowInstance(f, error_message) ==
  [inst |-> [f.inst EXCEPT !.status = "failed", !.completed_at = "set",
                           !.errors = Append(@, [step_id |-> None, error |-> None,
                                                 message |-> error_message])],
   task |-> EndedTask,
   hist |-> Emit(f.hist, "workflow_failed")]

\* _execute_workflow_instance from "while step_id:" to the next point where
\* foreign code runs: the step_started listeners of the step found, or the
\* end of the coroutine
LoopTop(f, wf) ==
  LET step_id == f.task.step_id
  IN IF ~Truthy(step_id) THEN CompleteWorkflowInstance(f)
     ELSE IF FindStep(wf, step_id) = 0
     THEN FailWorkflowInstance(f, <<"Step not found in workflow definition", step_id>>)
     ELSE [inst |-> [f.inst EXCEPT !.current_step_id = step_id],
           task |-> [f.task EXCEPT !.pc = "step_started"],
           hist |-> Emit([f.hist EXCEPT !.started = Append(@, step_id)],
                         "step_started")]

\* OnException that logs the error of a step without on_failure and lets the
\* loop end as if the step had no successor
OnExceptionSwallow(f, wf, e) ==
  LET step == wf.steps[FindStep(wf, f.task.step_id)]
      g == [f EXCEPT !.hist.outcomes = Append(@, "raised"),
                     !.inst.errors = Append(@, [step_id |-> step.on_failure,
                                                error |-> e, message |-> <<>>])]
  IN IF Truthy(step.on_failure)
     THEN LoopTop([g EXCEPT !.task.step_id = step.on_failure], wf)
     ELSE LoopTop([g EXCEPT !.task.step_id = None], wf)

\* OnException that sends a failed step with on_failure through the
\* transition table (key "error") instead of to its on_failure step
OnExceptionViaTransitions(f, wf, e) ==
  LET step == wf.steps[FindStep(wf, f.task.step_id)]
      error_result == ReplaceSub(EmptyDict, <<"status">>, Leaf(StrV(<<"error">>)))
  IN IF Truthy(step.on_failure)
     THEN LoopTop([f EXCEPT !.task.step_id = NextStep(wf, step.id, error_result),
                            !.inst.errors = Append(@, [step_id |-> step.on_failure,
                                                       error |-> e,
                                                       message |-> <<>>]),
                            !.hist.outcomes = Append(@, "raised")],
                  wf)
     ELSE FailWorkflowInstance([f EXCEPT !.hist.outcomes = Append(@, "raised")],
                               <<"Step execution error", e>>)

\* OnException that runs the step that raised once more
OnExceptionRetry(f, wf, e) ==
  LoopTop([f EXCEPT !.inst.errors = Append(@, [step_id |-> f.task.step_id,
                                               error |-> e, message |-> <<>>]),
                    !.hist.outcomes = Append(@, "raised")],
          wf)

\* _execute_workflow_instance, "except Exception as e": the redirect to
\* on_failure (the log entry is written after step_id is reassigned), or the
\* failure of the instance
OnException(f, wf, e) ==
  LET step == wf.steps[FindStep(wf, f.task.step_id)]
  IN IF Truthy(step.on_failure)
     THEN LoopTop([f EXCEPT !.task.step_id = step.on_failure,
                            !.inst.errors = Append(@, [step_id |-> step.on_failure,
                                                       error |-> e,
                                                       message |-> <<>>]),
                            !.hist.outcomes = Append(@, "raised")],
                  wf)
     ELSE FailWorkflowInstance([f EXCEPT !.hist.outcomes = Append(@, "raised")],
                               <<"Step execution error", e>>)

\* _execute_workflow_step from "Map outputs to context" to the step_completed
\* listeners; a TypeError of the mapping leaves the step through the handler
FinishStep(f, wf, result) ==
  LET step == wf.steps[FindStep(wf, f.task.step_id)]
      m == MapStepOutputsToContext(f.inst.context, result, step.output_mapping)
      g == [f EXCEPT !.inst.context = m.tree]
  IN IF m.ok
     THEN [g EXCEPT !.task.pc = "step_completed", !.task.result = result,
                    !.hist = Emit(@, "step_completed")]
     ELSE OnException(g, wf, "TypeError")

\* _execute_workflow_step from "Resolve inputs" to the tool call (or, for a
\* step without a tool, to the step_completed listeners)
BeginStep(f, wf, registered, assignments) ==
  LET step == wf.steps[FindStep(wf, f.task.step_id)]
      resolved_inputs == ResolveInputs(f.inst.context, step.inputs)
      agent_id == ResolveAgent(f.inst, step, assignments)
      g == [f EXCEPT !.task.resolved = resolved_inputs]
  IN IF ~AgentUsable(agent_id, registered)
     THEN OnException(g, wf, "No suitable agent found")
     ELSE IF Truthy(step.tool_required)
     THEN [g EXCEPT !.task.pc = "tool", !.task.agent_id = agent_id]
     ELSE FinishStep([g EXCEPT !.task.agent_id = agent_id], wf, PassThroughResult)

\* _execute_workflow_instance from the return of _execute_workflow_step:
\* "Store result", "Determine next step", and the loop again
AfterStep(f, wf) ==
  LET step_id == f.task.step_id
      result == f.task.result
  IN LoopTop([f EXCEPT !.inst.step_results = (step_id :> result) @@ @,
                       !.task.step_id = NextStep(wf, step_id, result),
                       !.hist.outcomes = Append(@, "returned")],
             wf)

\* started: the steps whose step_started event was emitted, in order;
\* outcomes: how each of them ended ("returned" or "raised"), in order
NewHist == [started |-> <<>>, outcomes |-> <<>>, cancelled |-> FALSE, events |-> {}]

\* the orchestrator after construction, register_workflow of the workflows
\* above and register_agent of agent a1 (a2 is never registered)
Init ==
  /\ instances = <<>>
  /\ tasks = <<>>
  /\ hist = <<>>
  /\ ready = <<>>
  /\ cur = 0
  /\ agents = {"a1"}
  /\ role_assignments = <<>>
  /\ memory = [memories |-> <<>>, tags_index |-> <<>>, context_index |-> <<>>]
  /\ access_permissions = <<>>
  /\ now = 1
  /\ uuids = 0
  /\ ret = [op |-> "none", agent |-> None, keys |-> {}]
  /\ bus = [channels |-> <<>>, direct_channels |-> <<>>, topic_channels |-> <<>>,
            callbacks |-> <<>>]
  /\ sent = [op |-> "none", sender |-> None, topic |-> None, ids |-> <<>>,
             channel |-> 0, ok |-> TRUE, calls |-> <<>>]
  /\ manager = [roles |-> <<>>, role_assignments |-> <<>>, assignment_history |-> <<>>]
  /\ teams = <<>>
  /\ outcome = [op |-> "none", id |-> 0, returned |-> FALSE, agent |-> None,
                role |-> None, team |-> None, evaluation |-> None]
  /\ executed = [op |-> "none", invoked |-> <<>>, steps |-> <<>>, raised |-> FALSE]
  /\ registry_instances = <<>>
  /\ called = [op |-> "none", agent |-> None, tool |-> None, result |-> None,
               registered_by |-> {}, required_permissions |-> {}]

\* the frame g of instance i replaces its frame; the event loop is free
\* again when the coroutine has ended
Put(i, g) ==
  /\ Len(g.hist.started) <= MaxStarted
  /\ instances' = [instances EXCEPT ![i] = g.inst]
  /\ tasks' = [tasks EXCEPT ![i] = g.task]
  /\ hist' = [hist EXCEPT ![i] = g.hist]
  /\ cur' = IF g.task.pc = "done" THEN 0 ELSE i

\* start_workflow(workflow_id, initial_context), for at most max instances
StartWorkflow(workflow_id, initial_context, max) ==
  /\ Len(instances) < max
  /\ IF workflow_id \notin WorkflowIds
     THEN UNCHANGED vars            \* raise ValueError("... not found")
     ELSE LET workflow == Workflows[workflow_id]
              instance == [workflow_id |-> workflow_id, status |-> "pending",
                           current_step_id |-> None, context |-> initial_context,
                           step_results |-> [k \in {} |-> EmptyDict],
                           errors |-> <<>>, completed_at |-> None,
                           agent_assignments |-> [k \in {} |-> None]]
              id == Len(instances) + 1
              initial_step_id ==
                IF Truthy(workflow.initial_step_id) THEN workflow.initial_step_id
                ELSE IF workflow.steps # <<>> THEN workflow.steps[1].id
                ELSE None           \* raise ValueError("... has no steps")
          IN /\ instances' = Append(instances, instance)
             /\ hist' = Append(hist, NewHist)
             /\ IF initial_step_id = None
                THEN /\ tasks' = Append(tasks, NewTask)
                     /\ ready' = ready
                ELSE /\ tasks' = Append(tasks, [NewTask EXCEPT !.pc = "scheduled",
                                                        !.step_id = initial_step_id])
                     /\ ready' = Append(ready, id)
             /\ UNCHANGED <<cur, agents, role_assignments, memvars, busvars, rolevars>>

\* the event loop begins the oldest task: _execute_workflow_instance up to
\* the workflow_started listeners
TaskStart ==
  /\ cur = 0
  /\ ready # <<>>
  /\ LET i == Head(ready)
         f == Frame(i)
     IN Put(i, [inst |-> [f.inst EXCEPT !.status = "running",
                                        !.current_step_id = f.task.step_id],
                task |-> [f.task EXCEPT !.pc = "workflow_started"],
                hist |-> Emit(f.hist, "workflow_started")])
  /\ ready' = Tail(ready)
  /\ UNCHANGED <<agents, role_assignments, memvars, busvars, rolevars>>

\* the workflow_started listeners have returned
EnterLoop(i) ==
  /\ tasks[i].pc = "workflow_started"
  /\ Put(i, LoopTop(Frame(i), WorkflowOf(i)))
  /\ UNCHANGED <<ready, agents, role_assignments, memvars, busvars, rolevars>>

\* the step_started listeners have returned
RunStep(i) ==
  /\ tasks[i].pc = "step_started"
  /\ Put(i, BeginStep(Frame(i), WorkflowOf(i), agents, role_assignments))
  /\ UNCHANGED <<ready, agents, role_assignments, memvars, busvars, rolevars>>

\* agent.execute_tool returns out
ToolReturn(i, out) ==
  /\ tasks[i].pc = "tool"
  /\ Put(i, FinishStep(Frame(i), WorkflowOf(i), BuildResult(out, tasks[i].agent_id)))
  /\ UNCHANGED <<ready, agents, role_assignments, memvars, busvars, rolevars>>

\* agent.execute_tool raises
ToolRaise(i) ==
  /\ tasks[i].pc = "tool"
  /\ Put(i, OnException(Frame(i), WorkflowOf(i), "tool raised"))
  /\ UNCHANGED <<ready, agents, role_assignments, memvars, busvars, rolevars>>

\* the step_completed listeners have returned
StepReturn(i) ==
  /\ tasks[i].pc = "step_completed"
  /\ Put(i, AfterStep(Frame(i), WorkflowOf(i)))
  /\ UNCHANGED <<ready, agents, role_assignments, memvars, busvars, rolevars>>

\* cancel_workflow_instance that cancels every cancellable instance
CancelEveryInstance(i) ==
  IF i \notin InstanceIds \/ instances[i].status \notin {"pending", "running"}
  THEN UNCHANGED vars
  ELSE /\ instances' = [j \in InstanceIds |->
                          IF instances[j].status \in {"pending", "running"}
                          THEN [instances[j] EXCEPT !.status = "cancelled",
                                                    !.completed_at = "set"]
                          ELSE instances[j]]
       /\ hist' = [hist EXCEPT ![i] = Emit([@ EXCEPT !.cancelled = TRUE],
                                           "workflow_cancelled")]
       /\ UNCHANGED <<tasks, ready, cur, agents, role_assignments, memvars, busvars, rolevars>>

\* cancel_workflow_instance(i), called by a listener, a tool or any other
\* code that runs between two steps of the event loop
CancelWorkflowInstance(i) ==
  IF i \notin InstanceIds \/ instances[i].status \notin {"pending", "running"}
  THEN UNCHANGED vars               \* return False
  ELSE /\ instances' = [instances EXCEPT ![i].status = "cancelled",
                                         ![i].completed_at = "set"]
       /\ hist' = [hist EXCEPT ![i] = Emit([@ EXCEPT !.cancelled = TRUE],
                                           "workflow_cancelled")]
       /\ UNCHANGED <<tasks, ready, cur, agents, role_assignments, memvars, busvars, rolevars>>

\* assign_agent_to_step that does not verify the step id
AssignAgentToStepAnyStep(i, step_id, agent_id) ==
  IF \/ i \notin InstanceIds
     \/ agent_id \notin agents
  THEN UNCHANGED vars
  ELSE /\ instances' = [instances EXCEPT
                          ![i].agent_assignments = (step_id :> agent_id) @@ @]
       /\ UNCHANGED <<tasks, hist, ready, cur, agents, role_assignments, memvars, busvars, rolevars>>

\* assign_agent_to_step(i, step_id, agent_id)
AssignAgentToStep(i, step_id, agent_id) ==
  IF \/ i \notin InstanceIds
     \/ agent_id \notin agents
     \/ FindStep(Workflows[instances[i].workflow_id], step_id) = 0
  THEN UNCHANGED vars               \* return False
  ELSE /\ instances' = [instances EXCEPT
                          ![i].agent_assignments = (step_id :> agent_id) @@ @]
       /\ UNCHANGED <<tasks, hist, ready, cur, agents, role_assignments, memvars, busvars, rolevars>>

\* RoleManager.assign_role(role_id, agent_id, confidence)
AssignRole(role_id, agent_id) ==
  /\ Len(role_assignments) < MaxRoleAssignments
  /\ role_assignments' = Append(role_assignments,
                                [role_id |-> role_id, agent_id |-> agent_id])
  /\ UNCHANGED <<instances, tasks, hist, ready, cur, agents, memvars, busvars, rolevars>>

\* RoleManager.assign_role while fewer than MaxRoleQueue assignments are held
AssignRoleQueued(role_id, agent_id) ==
  /\ Len(role_assignments) < MaxRoleQueue
  /\ role_assignments' = Append(role_assignments,
                                [role_id |-> role_id, agent_id |-> agent_id])
  /\ UNCHANGED <<instances, tasks, hist, ready, cur, agents, memvars, busvars, rolevars>>

\* RoleManager.revoke_assignment(assignment_id) of the k-th assignment held;
\* an unknown id returns False
RevokeAssignment(k) ==
  IF k \notin 1..Len(role_assignments)
  THEN UNCHANGED vars               \* return False
  ELSE /\ role_assignments' = [j \in 1..(Len(role_assignments) - 1) |->
                                 IF j < k THEN role_assignments[j]
                                 ELSE role_assignments[j + 1]]
       /\ UNCHANGED <<instances, tasks, hist, ready, cur, agents, memvars, busvars, rolevars>>

\* what the event loop, the listeners and the tools do
Turn ==
  \/ TaskStart
  \/ \E i \in InstanceIds : EnterLoop(i)
  \/ \E i \in InstanceIds : RunStep(i)
  \/ \E i \in InstanceIds, out \in ToolReturns : ToolReturn(i, out)
  \/ \E i \in InstanceIds : ToolRaise(i)
  \/ \E i \in InstanceIds : StepReturn(i)
  \/ \E i \in 1..(Len(instances) + 1) : CancelWorkflowInstance(i)
  \/ \E i \in 1..(Len(instances) + 1), s \in {"S1", "ghost"}, a \in AgentIds :
       AssignAgentToStep(i, s, a)
  \/ \E r \in RoleIds, a \in AgentIds : AssignRole(r, a)

Next ==
  \/ \E call \in StartCalls : StartWorkflow(call[1], call[2], MaxInstances)
  \/ Turn

Spec == Init /\ [][Next]_vars

\* several instances of one workflow
NextPair ==
  \/ \E call \in PairCalls : StartWorkflow(call[1], call[2], MaxPairInstances)
  \/ Turn

SpecPair == Init /\ [][NextPair]_vars

\* one workflow whose steps require role r1, several assignments of roles
RoleCalls == {<<"W1", EmptyDict>>}

NextRoles ==
  \/ \E call \in RoleCalls : StartWorkflow(call[1], call[2], MaxInstances)
  \/ Turn
  \/ \E r \in RoleIds \cup {"r2"}, a \in AgentIds : AssignRoleQueued(r, a)
  \/ \E k \in 1..(Len(role_assignments) + 1) : RevokeAssignment(k)

SpecRoles == Init /\ [][NextRoles]_vars

\* ------------------------------------------------------------ memory
\* A memory id is the number of the uuid4() value it was made from. A tag, a
\* context key and the str() of a context value are sequences of characters.
\* An importance is a multiple of 1/ImportanceUnit.

\* the capacity and the decay rate (DecayNum / DecayDen) the AgentMemory is
\* constructed with
max_size == 1

ImportanceUnit == 320

DecayNum == 1

DecayDen == 4

\* "if memory.importance < 0.05", in units
ForgetBelow == 16

\* removal_count = max(1, int(self.max_size * 0.05))
RemovalCount ==
  IF (max_size * 5) \div 100 > 1 THEN (max_size * 5) \div 100 ELSE 1

Range(seq) == {seq[k] : k \in 1..Len(seq)}

Restrict(f, keys) == [k \in keys |-> f[k]]

\* str.lower() on the characters of the model
LowerChar(c) == IF c = "A" THEN "a" ELSE IF c = "B" THEN "b" ELSE c

Lower(str) == [k \in 1..Len(str) |-> LowerChar(str[k])]

\* "sub in str"
Contains(sub, str) ==
  \E k \in 0..(Len(str) - Len(sub)) : SubSeq(str, k + 1, k + Len(sub)) = sub

\* a context value: an int or a str, with the characters str() gives for it
IntV(chars) == [kind |-> "int", s |-> chars]

\* f"{key}:{value}"
IndexKey(key, value) == key \o <<":">> \o value.s

\* the index keys of the pairs of a context dict
ContextKeys(context) == {IndexKey(k, context[k]) : k \in DOMAIN context}

\* "if key not in index: index[key] = set()" and "index[key].add(memory_id)",
\* for every key of keys
IndexAdd(index, keys, memory_id) ==
  [k \in DOMAIN index \cup keys |->
     (IF k \in DOMAIN index THEN index[k] ELSE {})
       \cup (IF k \in keys THEN {memory_id} ELSE {})]

\* "if key in index: index[key].discard(memory_id)", for every key of keys
IndexDiscard(index, keys, memory_id) ==
  [k \in DOMAIN index |-> IF k \in keys THEN index[k] \ {memory_id} ELSE index[k]]

\* MemoryItem.is_expired at time t; the expiration None is written 0
IsExpired(item, t) == item.expiration # 0 /\ t > item.expiration

\* forget without the removal from the indexes
ForgetItemOnly(m, memory_id) ==
  IF memory_id \notin DOMAIN m.memories THEN m
  ELSE [m EXCEPT !.memories = Restrict(m.memories, DOMAIN m.memories \ {memory_id})]

\* AgentMemory.forget: what the call returns
ForgetReturns(m, memory_id) == memory_id \in DOMAIN m.memories

\* AgentMemory.forget: the memory after the call (it returns True exactly
\* when memory_id is a key of memories)
Forget(m, memory_id) ==
  IF memory_id \notin DOMAIN m.memories THEN m
  ELSE LET item == m.memories[memory_id]
       IN [memories |-> Restrict(m.memories, DOMAIN m.memories \ {memory_id}),
           tags_index |-> IndexDiscard(m.tags_index, Range(item.tags), memory_id),
           context_index |-> IndexDiscard(m.context_index,
                                          ContextKeys(item.context), memory_id)]

\* forget(id) for the ids of a list, in order
RECURSIVE ForgetEach(_, _)
ForgetEach(m, ids) ==
  IF ids = <<>> THEN m ELSE ForgetEach(Forget(m, Head(ids)), Tail(ids))

\* sorted(items, key=score): the keys of memories in ascending score order;
\* sorted is stable, so equal scores stay in dict order (the order of
\* insertion, which is the order of the keys)
RECURSIVE SortedBy(_, _)
SortedBy(keys, score) ==
  IF keys = {} THEN <<>>
  ELSE LET first == CHOOSE k \in keys :
                      \A j \in keys : score[k] < score[j] \/ (score[k] = score[j] /\ k <= j)
       IN <<first>> \o SortedBy(keys \ {first}, score)

\* AgentMemory._forget_least_important: forget is called with the id
\* attribute of each of the removal_count least important items
ForgetLeastImportant(m) ==
  IF DOMAIN m.memories = {} THEN m
  ELSE LET sorted_memories == SortedBy(DOMAIN m.memories,
                                       [k \in DOMAIN m.memories |->
                                          m.memories[k].importance])
           n == IF RemovalCount < Len(sorted_memories) THEN RemovalCount
                ELSE Len(sorted_memories)
       IN ForgetEach(m, [k \in 1..n |-> m.memories[sorted_memories[k]].id])

\* AgentMemory.store(importance, tags, context, expiration); id is the uuid
\* of the new MemoryItem
Store(m, call, id) ==
  LET m1 == IF Cardinality(DOMAIN m.memories) >= max_size
            THEN ForgetLeastImportant(m) ELSE m
      item == [id |-> id, importance |-> call.importance, tags |-> call.tags,
               context |-> call.context, expiration |-> call.expiration]
  IN [memories |-> (id :> item) @@ m1.memories,
      tags_index |-> IndexAdd(m1.tags_index, Range(item.tags), id),
      context_index |-> IndexAdd(m1.context_index, ContextKeys(item.context), id)]

\* Retrieve that hands out an expired item too
RetrieveExpired(m, memory_id, t) ==
  [memory |-> m, found |-> memory_id \in DOMAIN m.memories]

\* AgentMemory.retrieve at time t: found says whether the item is returned
Retrieve(m, memory_id, t) ==
  IF memory_id \notin DOMAIN m.memories THEN [memory |-> m, found |-> FALSE]
  ELSE IF ~IsExpired(m.memories[memory_id], t) THEN [memory |-> m, found |-> TRUE]
  ELSE [memory |-> [m EXCEPT !.memories = Restrict(@, DOMAIN @ \ {memory_id})],
        found |-> FALSE]

\* "for memory_id in candidate_ids: memory = self.retrieve(memory_id); if
\* memory: results.append(memory)": the memory afterwards and the keys of
\* the items appended
RECURSIVE RetrieveEach(_, _, _)
RetrieveEach(m, candidate_ids, t) ==
  IF candidate_ids = {} THEN [memory |-> m, keys |-> {}]
  ELSE LET memory_id == CHOOSE x \in candidate_ids : TRUE
           r == Retrieve(m, memory_id, t)
           rest == RetrieveEach(r.memory, candidate_ids \ {memory_id}, t)
       IN [memory |-> rest.memory,
           keys |-> rest.keys \cup (IF r.found THEN {memory_id} ELSE {})]

\* search_by_tags, the loop "for tag in tags" that builds candidate_ids
RECURSIVE TagCandidates(_, _, _, _)
TagCandidates(index, tags, require_all, candidate_ids) ==
  IF tags = <<>> THEN candidate_ids
  ELSE LET tag == Head(tags)
           tag_matches == UNION {index[indexed_tag] :
                                   indexed_tag \in {x \in DOMAIN index :
                                                      Contains(Lower(tag), Lower(x))}}
       IN TagCandidates(index, Tail(tags), require_all,
                        IF candidate_ids = {} THEN tag_matches
                        ELSE IF require_all THEN candidate_ids \cap tag_matches
                        ELSE candidate_ids \cup tag_matches)

\* AgentMemory.search_by_tags at time t
SearchByTags(m, tags, require_all, t) ==
  IF tags = <<>> THEN [memory |-> m, keys |-> {}]
  ELSE RetrieveEach(m, TagCandidates(m.tags_index, tags, require_all, {}), t)

\* search_by_context, the loop "for key, value in context.items()": the
\* pairs of the dict in order; done says that the loop returned []
RECURSIVE ContextCandidates(_, _, _, _)
ContextCandidates(index, pairs, candidate_ids, first_key) ==
  IF pairs = <<>> THEN candidate_ids
  ELSE LET index_key == IndexKey(pairs[1][1], pairs[1][2])
       IN IF index_key \in DOMAIN index
          THEN ContextCandidates(index, Tail(pairs),
                                 IF first_key THEN index[index_key]
                                 ELSE candidate_ids \cap index[index_key],
                                 FALSE)
          ELSE IF first_key THEN {}
          ELSE ContextCandidates(index, Tail(pairs), candidate_ids, FALSE)

\* AgentMemory.search_by_context at time t
SearchByContext(m, pairs, t) ==
  IF pairs = <<>> THEN [memory |-> m, keys |-> {}]
  ELSE RetrieveEach(m, ContextCandidates(m.context_index, pairs, {}, TRUE), t)

\* str.split(): the maximal runs of characters other than the blank
RECURSIVE SplitBlanks(_, _)
SplitBlanks(str, word) ==
  IF str = <<>> THEN (IF word = <<>> THEN <<>> ELSE <<word>>)
  ELSE IF Head(str) = " "
  THEN (IF word = <<>> THEN <<>> ELSE <<word>>) \o SplitBlanks(Tail(str), <<>>)
  ELSE SplitBlanks(Tail(str), Append(word, Head(str)))

\* MemoryItem.calculate_relevance without an embedding function, the count
\* "matches" over the tags and the query terms
RECURSIVE CountMatches(_, _)
CountMatches(tags, query_terms) ==
  IF tags = <<>> THEN 0
  ELSE Cardinality({k \in 1..Len(query_terms) :
                      Contains(query_terms[k], Lower(Head(tags)))})
         + CountMatches(Tail(tags), query_terms)

\* combined_score = relevance * 0.7 + importance * 0.3 with relevance =
\* min(1.0, matches / len(query_terms)) (0.0 without terms), multiplied by
\* 10 * ImportanceUnit * len(query_terms) to stay in the integers
CombinedScore(item, query_terms) ==
  LET n == Len(query_terms)
      matches == CountMatches(item.tags, query_terms)
  IN IF n = 0 THEN 3 * item.importance
     ELSE 7 * ImportanceUnit * (IF matches < n THEN matches ELSE n)
            + 3 * n * item.importance

\* AgentMemory.search_by_relevance at time t: every expired item is deleted
\* from memories, the others are scored and the limit best are returned
SearchByRelevance(m, query, limit, t) ==
  IF query = <<>> THEN [memory |-> m, keys |-> {}]
  ELSE LET alive == {k \in DOMAIN m.memories : ~IsExpired(m.memories[k], t)}
           query_terms == SplitBlanks(Lower(query), <<>>)
           scored_memories ==
             SortedBy(alive, [k \in alive |->
                               0 - CombinedScore(m.memories[k], query_terms)])
       IN [memory |-> [m EXCEPT !.memories = Restrict(@, alive)],
           keys |-> {scored_memories[k] :
                       k \in 1..(IF limit < Len(scored_memories) THEN limit
                                 ELSE Len(scored_memories))}]

\* a keyword argument of update that is a float
Float(v) == [kind |-> "float", v |-> v]

\* AgentMemory.update(memory_id, **updates) at time t; updates.given holds
\* the keywords passed, the other fields their values
Update(m, memory_id, updates, t) ==
  LET r == Retrieve(m, memory_id, t)
  IN IF ~r.found THEN [memory |-> r.memory, ok |-> FALSE]
     ELSE LET old == m.memories[memory_id]
              has(k) == k \in updates.given
              importance ==
                IF has("importance") /\ updates.importance.kind = "float"
                THEN (IF updates.importance.v < 0 THEN 0
                      ELSE IF updates.importance.v > ImportanceUnit
                      THEN ImportanceUnit ELSE updates.importance.v)
                ELSE old.importance
              tags == IF has("tags") THEN updates.tags ELSE old.tags
              context == IF has("context") THEN updates.context ELSE old.context
              tags_index ==
                IF has("tags")
                THEN IndexAdd(IndexDiscard(m.tags_index, Range(old.tags), memory_id),
                              Range(tags), memory_id)
                ELSE m.tags_index
              context_index ==
                IF has("context")
                THEN IndexAdd(IndexDiscard(m.context_index, ContextKeys(old.context),
                                           memory_id),
                              ContextKeys(context), memory_id)
                ELSE m.context_index
              item == [id |-> IF has("id") THEN updates.id ELSE old.id,
                       importance |-> importance, tags |-> tags, context |-> context,
                       expiration |-> IF has("expiration") THEN updates.expiration
                                      ELSE old.expiration]
          IN [memory |-> [memories |-> [m.memories EXCEPT ![memory_id] = item],
                          tags_index |-> tags_index,
                          context_index |-> context_index],
              ok |-> TRUE]

\* MemoryItem.decay_importance(self.decay_rate)
DecayImportance(importance) ==
  IF (importance * DecayNum) \div DecayDen > 0
  THEN (importance * DecayNum) \div DecayDen ELSE 0

\* decay_all, the loop over list(self.memories.values()): the items of the
\* snapshot in dict order; an item forgotten meanwhile is no longer in
\* memories, so its decay is not seen
RECURSIVE DecayEach(_, _)
DecayEach(m, snapshot) ==
  IF snapshot = <<>> THEN m
  ELSE LET k == Head(snapshot)
       IN IF k \notin DOMAIN m.memories THEN DecayEach(m, Tail(snapshot))
          ELSE LET importance == DecayImportance(m.memories[k].importance)
                   m1 == [m EXCEPT !.memories[k].importance = importance]
               IN DecayEach(IF importance < ForgetBelow
                            THEN Forget(m1, m1.memories[k].id) ELSE m1,
                            Tail(snapshot))

\* AgentMemory.decay_all
DecayAll(m) == DecayEach(m, SortedBy(DOMAIN m.memories, [k \in DOMAIN m.memories |-> 0]))

\* the tags, contexts and calls of the model
TagAb == <<"A", "b">>

TagB == <<"b">>

TagC == <<"c">>

NoContext == [k \in {} |-> IntV(<<>>)]

CtxK1 == (<<"k">> :> IntV(<<"1">>))

CtxK1J2 == (<<"k">> :> IntV(<<"1">>)) @@ (<<"j">> :> IntV(<<"2">>))

\* the calls store(importance, tags, context, expiration)
StoreCalls ==
  { [importance |-> 40, tags |-> <<TagAb>>, context |-> CtxK1, expiration |-> 0],
    [importance |-> 20, tags |-> <<TagB, TagC>>, context |-> CtxK1J2, expiration |-> 1] }

\* update(memory_id, **updates) with no keyword
NoUpdates == [given |-> {}, importance |-> Float(0), tags |-> <<>>,
              context |-> NoContext, id |-> 0, expiration |-> 0]

\* the calls update(memory_id, tags=..., context=...) and
\* update(memory_id, id=...)
UpdateCalls ==
  { [NoUpdates EXCEPT !.given = {"tags", "context"}, !.tags = <<TagC>>,
                      !.context = (<<"j">> :> IntV(<<"2">>))],
    [NoUpdates EXCEPT !.given = {"id"}] }

\* the tag lists search_by_tags is called with
TagQueries ==
  { << <<"z">>, <<"c">> >>, << <<"a">>, <<"c">> >>, << <<"B">>, <<"c">> >> }

\* the contexts search_by_context is called with, as lists of pairs
ContextQueries ==
  { << <<(<<"k">>), IntV(<<"1">>)>> >>,
    << <<(<<"k">>), IntV(<<"1">>)>>, <<(<<"j">>), IntV(<<"2">>)>> >>,
    << <<(<<"j">>), IntV(<<"2">>)>>, <<(<<"k">>), IntV(<<"1">>)>> >>,
    << <<(<<"k">>), StrV(<<"1">>)>> >> }

\* the query search_by_relevance is called with
RelevanceQueries == { <<"b", " ", "z">> }

\* what a SharedMemory call returned: the operation, the calling agent and
\* the keys of the items returned or of the item stored (none for None and
\* for the empty list)
NoRet == [op |-> "none", agent |-> None, keys |-> {}]

\* AgentMemory.store
MemStore(call) ==
  /\ uuids < MaxUuids
  /\ uuids' = uuids + 1
  /\ memory' = Store(memory, call, uuids + 1)
  /\ UNCHANGED <<orchvars, access_permissions, now, ret, busvars, rolevars>>

\* AgentMemory.retrieve
MemRetrieve(memory_id) ==
  /\ memory' = Retrieve(memory, memory_id, now).memory
  /\ UNCHANGED <<orchvars, access_permissions, now, uuids, ret, busvars, rolevars>>

\* AgentMemory.search_by_tags
MemSearchByTags(tags, require_all) ==
  /\ memory' = SearchByTags(memory, tags, require_all, now).memory
  /\ UNCHANGED <<orchvars, access_permissions, now, uuids, ret, busvars, rolevars>>

\* AgentMemory.search_by_context
MemSearchByContext(pairs) ==
  /\ memory' = SearchByContext(memory, pairs, now).memory
  /\ UNCHANGED <<orchvars, access_permissions, now, uuids, ret, busvars, rolevars>>

\* AgentMemory.search_by_relevance
MemSearchByRelevance(query, limit) ==
  /\ memory' = SearchByRelevance(memory, query, limit, now).memory
  /\ UNCHANGED <<orchvars, access_permissions, now, uuids, ret, busvars, rolevars>>

\* AgentMemory.update
MemUpdate(memory_id, updates) ==
  /\ memory' = Update(memory, memory_id, updates, now).memory
  /\ UNCHANGED <<orchvars, access_permissions, now, uuids, ret, busvars, rolevars>>

\* AgentMemory.forget
MemForget(memory_id) ==
  /\ memory' = Forget(memory, memory_id)
  /\ UNCHANGED <<orchvars, access_permissions, now, uuids, ret, busvars, rolevars>>

\* AgentMemory.decay_all, while the products stay multiples of the unit
MemDecayAll ==
  /\ \A k \in DOMAIN memory.memories :
       (memory.memories[k].importance * DecayNum) % DecayDen = 0
  /\ memory' = DecayAll(memory)
  /\ UNCHANGED <<orchvars, access_permissions, now, uuids, ret, busvars, rolevars>>

\* time passes; what the last call returned has been consumed
Tick ==
  /\ now < MaxTime
  /\ now' = now + 1
  /\ ret' = NoRet
  /\ UNCHANGED <<orchvars, memory, access_permissions, uuids, busvars, rolevars>>

\* the calls to an AgentMemory
NextMemory ==
  \/ \E call \in StoreCalls : MemStore(call)
  \/ \E memory_id \in 1..MaxUuids : MemRetrieve(memory_id)
  \/ \E tags \in TagQueries, require_all \in BOOLEAN : MemSearchByTags(tags, require_all)
  \/ \E pairs \in ContextQueries : MemSearchByContext(pairs)
  \/ \E query \in RelevanceQueries, limit \in {1, 5} : MemSearchByRelevance(query, limit)
  \/ \E memory_id \in 1..MaxUuids, updates \in UpdateCalls : MemUpdate(memory_id, updates)
  \/ \E memory_id \in 1..MaxUuids : MemForget(memory_id)
  \/ MemDecayAll
  \/ Tick

SpecMemory == Init /\ [][NextMemory]_vars

\* store(..., importance=1.5) and store(..., importance=-0.5)
ImportanceStores ==
  { [importance |-> ImportanceUnit + 160, tags |-> <<TagB>>, context |-> NoContext,
     expiration |-> 0],
    [importance |-> 0 - 160, tags |-> <<TagC>>, context |-> NoContext,
     expiration |-> 0] }

\* update(memory_id, importance=2.0), update(memory_id, importance=-1.0) and
\* update(memory_id, importance=2) with an int
ImportanceUpdates ==
  { [NoUpdates EXCEPT !.given = {"importance"},
                      !.importance = Float(2 * ImportanceUnit)],
    [NoUpdates EXCEPT !.given = {"importance"},
                      !.importance = Float(0 - ImportanceUnit)],
    [NoUpdates EXCEPT !.given = {"importance"},
                      !.importance = [kind |-> "int", v |-> 2 * ImportanceUnit]] }

\* store, update and decay_all, with importances from outside [0, 1] too
NextImportance ==
  \/ \E call \in StoreCalls \cup ImportanceStores : MemStore(call)
  \/ MemDecayAll
  \/ \E memory_id \in 1..MaxUuids, updates \in ImportanceUpdates :
       MemUpdate(memory_id, updates)

SpecImportance == Init /\ [][NextImportance]_vars

\* ------------------------------------------------------------ shared memory
\* the agents that call the SharedMemory
PoolAgents == {"a1", "a2"}

\* has_read_access that takes any entry of the permission map for a grant
HasReadAccessAnyEntry(permissions, agent_id) == agent_id \in DOMAIN permissions

\* SharedMemory.has_read_access
HasReadAccess(permissions, agent_id) ==
  agent_id \in DOMAIN permissions /\ permissions[agent_id].read

\* SharedMemory.has_write_access
HasWriteAccess(permissions, agent_id) ==
  agent_id \in DOMAIN permissions /\ permissions[agent_id].write

\* SharedMemory.grant_access
GrantAccess(agent_id, read, write) ==
  /\ access_permissions' =
       (agent_id :> [read |-> read, write |-> write]) @@ access_permissions
  /\ ret' = [NoRet EXCEPT !.op = "grant_access", !.agent = agent_id]
  /\ UNCHANGED <<orchvars, memory, now, uuids, busvars, rolevars>>

\* SharedMemory.revoke_access
RevokeAccess(agent_id) ==
  /\ access_permissions' =
       Restrict(access_permissions, DOMAIN access_permissions \ {agent_id})
  /\ ret' = [NoRet EXCEPT !.op = "revoke_access", !.agent = agent_id]
  /\ UNCHANGED <<orchvars, memory, now, uuids, busvars, rolevars>>

\* SharedMemory.store
SharedStore(agent_id, call) ==
  /\ uuids < MaxUuids
  /\ IF ~HasWriteAccess(access_permissions, agent_id)
     THEN /\ ret' = [NoRet EXCEPT !.op = "store", !.agent = agent_id]
          /\ UNCHANGED <<memory, uuids>>
     ELSE /\ uuids' = uuids + 1
          /\ memory' = Store(memory, call, uuids + 1)
          /\ ret' = [op |-> "store", agent |-> agent_id, keys |-> {uuids + 1}]
  /\ UNCHANGED <<orchvars, access_permissions, now, busvars, rolevars>>

\* a read of the SharedMemory: denied, or what the AgentMemory call r gives
SharedRead(op, agent_id, r) ==
  /\ IF ~HasReadAccess(access_permissions, agent_id)
     THEN /\ ret' = [NoRet EXCEPT !.op = op, !.agent = agent_id]
          /\ UNCHANGED memory
     ELSE /\ memory' = r.memory
          /\ ret' = [op |-> op, agent |-> agent_id, keys |-> r.keys]
  /\ UNCHANGED <<orchvars, access_permissions, now, uuids, busvars, rolevars>>

\* SharedMemory.retrieve
SharedRetrieve(agent_id, memory_id) ==
  LET r == Retrieve(memory, memory_id, now)
  IN SharedRead("retrieve", agent_id,
                [memory |-> r.memory,
                 keys |-> IF r.found THEN {memory_id} ELSE {}])

\* SharedMemory.search_by_tags
SharedSearchByTags(agent_id, tags, require_all) ==
  SharedRead("search_by_tags", agent_id,
             SearchByTags(memory, tags, require_all, now))

\* SharedMemory.search_by_context
SharedSearchByContext(agent_id, pairs) ==
  SharedRead("search_by_context", agent_id, SearchByContext(memory, pairs, now))

\* SharedMemory.search_by_relevance
SharedSearchByRelevance(agent_id, query, limit) ==
  SharedRead("search_by_relevance", agent_id,
             SearchByRelevance(memory, query, limit, now))

\* the calls to a SharedMemory
NextShared ==
  \/ \E a \in PoolAgents, read \in BOOLEAN, write \in BOOLEAN : GrantAccess(a, read, write)
  \/ \E a \in PoolAgents : RevokeAccess(a)
  \/ \E a \in PoolAgents, call \in StoreCalls : SharedStore(a, call)
  \/ \E a \in PoolAgents, memory_id \in 1..MaxUuids : SharedRetrieve(a, memory_id)
  \/ \E a \in PoolAgents : SharedSearchByTags(a, << <<"B">>, <<"c">> >>, FALSE)
  \/ \E a \in PoolAgents : SharedSearchByContext(a, << <<(<<"k">>), IntV(<<"1">>)>> >>)
  \/ \E a \in PoolAgents, query \in RelevanceQueries : SharedSearchByRelevance(a, query, 1)
  \/ Tick

SpecShared == Init /\ [][NextShared]_vars

\* ------------------------------------------------------------ message bus
\* An agent is named by its agent_id; there is one Agent object per id. A
\* channel is named by its id, the number of the uuid4() value it was made
\* from, and so is a message.

BusAgents == {"A", "B", "C"}

\* the place of an agent id in the order of str
AgentRank == [A |-> 1, B |-> 2, C |-> 3]

Topics == {"t"}

MessageTypes == {"m"}

\* what a callback registered on a channel does with the message: it
\* raises, or it calls unsubscribe(recipient of the message, "t")
ChannelCallbacks == {"raises", "unsubscribes"}

\* what a callback registered on a topic does with the message
TopicCallbacks == {"raises"}

\* the key of get_or_create_channel without the sorting
UnsortedPair(agent_a, agent_b) == <<agent_a, agent_b>>

\* agent_ids = sorted([agent_a.agent_id, agent_b.agent_id]);
\* key = (agent_ids[0], agent_ids[1])
SortedPair(agent_a, agent_b) ==
  IF AgentRank[agent_a] <= AgentRank[agent_b] THEN <<agent_a, agent_b>>
  ELSE <<agent_b, agent_a>>

\* CommunicationChannel.__init__
NewChannel(id, agent_a, agent_b, channel_type) ==
  [id |-> id, agent_a |-> agent_a, agent_b |-> agent_b,
   channel_type |-> channel_type, message_history |-> <<>>,
   callbacks |-> [t \in {} |-> <<>>]]

\* MessageBus.get_or_create_channel, uuid values having been handed out:
\* the bus afterwards, the channel returned, the uuid count afterwards
GetOrCreateChannel(b, agent_a, agent_b, uuid) ==
  LET key == SortedPair(agent_a, agent_b)
  IN IF key \in DOMAIN b.direct_channels
     THEN [bus |-> b, channel |-> b.direct_channels[key], uuids |-> uuid]
     ELSE LET channel == NewChannel(uuid + 1, agent_a, agent_b, "direct")
          IN [bus |-> [b EXCEPT !.channels = (channel.id :> channel) @@ @,
                                !.direct_channels = (key :> channel.id) @@ @],
              channel |-> channel.id,
              uuids |-> uuid + 1]

\* subscribe without the test for membership
SubscribeAlways(b, agent, topic) ==
  LET b1 == IF topic \in DOMAIN b.topic_channels THEN b
            ELSE [b EXCEPT !.topic_channels = (topic :> <<>>) @@ @]
  IN [b1 EXCEPT !.topic_channels[topic] = Append(@, agent)]

\* MessageBus.subscribe
Subscribe(b, agent, topic) ==
  LET b1 == IF topic \in DOMAIN b.topic_channels THEN b
            ELSE [b EXCEPT !.topic_channels = (topic :> <<>>) @@ @]
  IN IF agent \in Range(b1.topic_channels[topic]) THEN b1
     ELSE [b1 EXCEPT !.topic_channels[topic] = Append(@, agent)]

\* list.remove(agent): the list without the first occurrence of agent
RemoveFirst(list, agent) ==
  LET k == CHOOSE k \in 1..Len(list) :
             list[k] = agent /\ \A j \in 1..(k - 1) : list[j] # agent
  IN SubSeq(list, 1, k - 1) \o SubSeq(list, k + 1, Len(list))

\* MessageBus.unsubscribe
Unsubscribe(b, agent, topic) ==
  IF topic \in DOMAIN b.topic_channels /\ agent \in Range(b.topic_channels[topic])
  THEN [b EXCEPT !.topic_channels[topic] = RemoveFirst(@, agent)]
  ELSE b

\* the ids of the messages in the histories of the channels of the bus
Recorded(b) ==
  UNION { { b.channels[id].message_history[k].id :
              k \in 1..Len(b.channels[id].message_history) } :
          id \in DOMAIN b.channels }

\* callback(message): what the call of one callback is, for the record: the
\* callback, the message it got, and the messages that were in the
\* histories when it ran
Invocation(b, callback, message) ==
  [callback |-> callback, message |-> message.id,
   recipient_id |-> message.recipient_id, recorded |-> Recorded(b)]

\* "for callback in callbacks: try: callback(message) except Exception":
\* the bus after the callbacks of the list have run, in order, and the calls
\* made; calls holds the calls made before
RECURSIVE RunCallbacks(_, _, _, _)
RunCallbacks(b, callbacks, message, calls) ==
  IF callbacks = <<>> THEN [bus |-> b, calls |-> calls]
  ELSE RunCallbacks(IF Head(callbacks) = "unsubscribes"
                    THEN Unsubscribe(b, message.recipient_id, "t") ELSE b,
                    Tail(callbacks), message,
                    Append(calls, Invocation(b, Head(callbacks), message)))

\* send_message with the append after the callbacks
SendMessageAppendLast(b, channel_id, sender, recipient, message_type, uuid) ==
  LET channel == b.channels[channel_id]
      message == [id |-> uuid + 1, sender_id |-> sender, recipient_id |-> recipient,
                  message_type |-> message_type]
      callbacks == IF message_type \in DOMAIN channel.callbacks
                   THEN channel.callbacks[message_type] ELSE <<>>
  IN IF sender \notin {channel.agent_a, channel.agent_b}
          \/ recipient \notin {channel.agent_a, channel.agent_b}
     THEN [bus |-> b, message_id |-> 0, uuids |-> uuid, ok |-> FALSE, calls |-> <<>>]
     ELSE LET r == RunCallbacks(b, callbacks, message, <<>>)
          IN [bus |-> [r.bus EXCEPT !.channels[channel_id].message_history =
                                      Append(@, message)],
              message_id |-> message.id, uuids |-> uuid + 1, ok |-> TRUE,
              calls |-> r.calls]

\* CommunicationChannel.send_message on the channel channel_id; ok is FALSE
\* when it raises ValueError
SendMessage(b, channel_id, sender, recipient, message_type, uuid) ==
  LET channel == b.channels[channel_id]
      message == [id |-> uuid + 1, sender_id |-> sender, recipient_id |-> recipient,
                  message_type |-> message_type]
      callbacks == IF message_type \in DOMAIN channel.callbacks
                   THEN channel.callbacks[message_type] ELSE <<>>
  IN IF sender \notin {channel.agent_a, channel.agent_b}
          \/ recipient \notin {channel.agent_a, channel.agent_b}
     THEN [bus |-> b, message_id |-> 0, uuids |-> uuid, ok |-> FALSE, calls |-> <<>>]
     ELSE LET r == RunCallbacks([b EXCEPT !.channels[channel_id].message_history =
                                            Append(@, message)],
                                callbacks, message, <<>>)
          IN [bus |-> r.bus, message_id |-> message.id, uuids |-> uuid + 1,
              ok |-> TRUE, calls |-> r.calls]

\* publish, "for recipient in self.topic_channels[topic]": the iteration is
\* at index k of the list as it is now (the callbacks run by send_message
\* may have changed it); acc holds the message ids and the callback calls
\* so far
RECURSIVE PublishLoop(_, _, _, _, _, _, _)
PublishLoop(b, sender, topic, message_type, k, acc, uuid) ==
  IF k > Len(b.topic_channels[topic])
  THEN [bus |-> b, message_ids |-> acc.message_ids, uuids |-> uuid,
        calls |-> acc.calls]
  ELSE LET recipient == b.topic_channels[topic][k]
       IN IF recipient = sender
          THEN PublishLoop(b, sender, topic, message_type, k + 1, acc, uuid)
          ELSE LET g == GetOrCreateChannel(b, sender, recipient, uuid)
                   m == SendMessage(g.bus, g.channel, sender, recipient,
                                    message_type, g.uuids)
               IN PublishLoop(m.bus, sender, topic, message_type, k + 1,
                              [message_ids |-> Append(acc.message_ids, m.message_id),
                               calls |-> acc.calls \o m.calls],
                              m.uuids)

\* MessageBus.publish: the fan-out, then the callbacks of the topic with a
\* message addressed to "topic:<topic>"
Publish(b, sender, topic, message_type, uuid) ==
  IF topic \notin DOMAIN b.topic_channels
  THEN [bus |-> b, message_ids |-> <<>>, uuids |-> uuid, calls |-> <<>>]
  ELSE LET r == PublishLoop(b, sender, topic, message_type, 1,
                            [message_ids |-> <<>>, calls |-> <<>>], uuid)
       IN IF topic \in DOMAIN r.bus.callbacks
          THEN LET c == RunCallbacks(r.bus, r.bus.callbacks[topic],
                                     [id |-> r.uuids + 1, sender_id |-> sender,
                                      recipient_id |-> "topic:" \o topic,
                                      message_type |-> message_type],
                                     r.calls)
               IN [r EXCEPT !.bus = c.bus, !.calls = c.calls, !.uuids = @ + 1]
          ELSE r

\* what a call to the bus returned: the operation, its sender and topic (of
\* publish), the message ids (of publish and send_message), the channel (of
\* get_or_create_channel and send_message), whether it returned (ok) or
\* raised, and the calls of callbacks it made
NoSent == [op |-> "none", sender |-> None, topic |-> None, ids |-> <<>>,
           channel |-> 0, ok |-> TRUE, calls |-> <<>>]

\* MessageBus.get_or_create_channel(agent_a, agent_b)
BusGetOrCreateChannel(agent_a, agent_b) ==
  LET r == GetOrCreateChannel(bus, agent_a, agent_b, uuids)
  IN /\ r.uuids <= MaxBusUuids
     /\ bus' = r.bus
     /\ uuids' = r.uuids
     /\ sent' = [NoSent EXCEPT !.op = "get_or_create_channel", !.channel = r.channel]
     /\ UNCHANGED <<orchvars, memory, access_permissions, now, ret, rolevars>>

\* MessageBus.subscribe(agent, topic)
BusSubscribe(agent, topic) ==
  /\ bus' = Subscribe(bus, agent, topic)
  /\ sent' = NoSent
  /\ UNCHANGED <<orchvars, memvars, rolevars>>

\* MessageBus.unsubscribe(agent, topic)
BusUnsubscribe(agent, topic) ==
  /\ bus' = Unsubscribe(bus, agent, topic)
  /\ sent' = NoSent
  /\ UNCHANGED <<orchvars, memvars, rolevars>>

\* the callbacks registered on the channels ids of the bus, counted
RECURSIVE CountChannelCallbacks(_, _)
CountChannelCallbacks(b, ids) ==
  IF ids = {} THEN 0
  ELSE LET id == CHOOSE x \in ids : TRUE
           c == b.channels[id].callbacks
       IN (IF "m" \in DOMAIN c THEN Len(c["m"]) ELSE 0)
            + CountChannelCallbacks(b, ids \ {id})

\* the callbacks registered on the bus and on its channels, counted
CountCallbacks(b) ==
  CountChannelCallbacks(b, DOMAIN b.channels)
    + (IF "t" \in DOMAIN b.callbacks THEN Len(b.callbacks["t"]) ELSE 0)

\* CommunicationChannel.register_callback(message_type, callback) on the
\* channel channel_id
ChannelRegisterCallback(channel_id, message_type, callback) ==
  /\ channel_id \in DOMAIN bus.channels
  /\ CountCallbacks(bus) < MaxCallbacks
  /\ LET c == bus.channels[channel_id].callbacks
         c1 == IF message_type \in DOMAIN c THEN c ELSE (message_type :> <<>>) @@ c
     IN bus' = [bus EXCEPT !.channels[channel_id].callbacks =
                             [c1 EXCEPT ![message_type] = Append(@, callback)]]
  /\ sent' = NoSent
  /\ UNCHANGED <<orchvars, memvars, rolevars>>

\* MessageBus.register_topic_callback(topic, callback)
BusRegisterTopicCallback(topic, callback) ==
  /\ CountCallbacks(bus) < MaxCallbacks
  /\ LET c == bus.callbacks
         c1 == IF topic \in DOMAIN c THEN c ELSE (topic :> <<>>) @@ c
     IN bus' = [bus EXCEPT !.callbacks = [c1 EXCEPT ![topic] = Append(@, callback)]]
  /\ sent' = NoSent
  /\ UNCHANGED <<orchvars, memvars, rolevars>>

\* MessageBus.publish(sender, topic, message_type, content)
BusPublish(sender, topic, message_type) ==
  LET r == Publish(bus, sender, topic, message_type, uuids)
  IN /\ r.uuids <= MaxBusUuids
     /\ bus' = r.bus
     /\ uuids' = r.uuids
     /\ sent' = [NoSent EXCEPT !.op = "publish", !.sender = sender, !.topic = topic,
                               !.ids = r.message_ids, !.calls = r.calls]
     /\ UNCHANGED <<orchvars, memory, access_permissions, now, ret, rolevars>>

\* the pairs get_or_create_channel is called with
ChannelCalls == {<<"A", "B">>, <<"B", "A">>}

\* the agents that publish
Publishers == {"A"}

\* the calls to a MessageBus and to its channels
NextBus ==
  \/ \E call \in ChannelCalls : BusGetOrCreateChannel(call[1], call[2])
  \/ \E a \in BusAgents, t \in Topics : BusSubscribe(a, t)
  \/ \E a \in BusAgents, t \in Topics : BusUnsubscribe(a, t)
  \/ \E id \in 1..MaxBusUuids, mt \in MessageTypes, cb \in ChannelCallbacks :
       ChannelRegisterCallback(id, mt, cb)
  \/ \E t \in Topics, cb \in TopicCallbacks : BusRegisterTopicCallback(t, cb)
  \/ \E a \in Publishers, t \in Topics, mt \in MessageTypes : BusPublish(a, t, mt)

SpecBus == Init /\ [][NextBus]_vars

\* CommunicationChannel.send_message(sender, recipient, message_type,
\* content) on the channel channel_id
ChannelSendMessage(channel_id, sender, recipient, message_type) ==
  /\ channel_id \in DOMAIN bus.channels
  /\ LET r == SendMessage(bus, channel_id, sender, recipient, message_type, uuids)
     IN /\ r.uuids <= MaxBusUuids
        /\ bus' = r.bus
        /\ uuids' = r.uuids
        /\ sent' = [NoSent EXCEPT !.op = "send_message", !.sender = sender,
                                  !.channel = channel_id,
                                  !.ids = IF r.ok THEN <<r.message_id>> ELSE <<>>,
                                  !.ok = r.ok, !.calls = r.calls]
  /\ UNCHANGED <<orchvars, memory, access_permissions, now, ret, rolevars>>

\* the calls to one channel of a MessageBus
NextChannel ==
  \/ \E call \in ChannelCalls : BusGetOrCreateChannel(call[1], call[2])
  \/ \E id \in 1..MaxBusUuids, mt \in MessageTypes, cb \in ChannelCallbacks :
       ChannelRegisterCallback(id, mt, cb)
  \/ \E id \in 1..MaxBusUuids, a \in BusAgents, b \in BusAgents, mt \in MessageTypes :
       ChannelSendMessage(id, a, b, mt)

SpecChannel == Init /\ [][NextChannel]_vars

\* ------------------------------------------------------------ role manager
\* A proficiency is a whole number of units of 1/ProficiencyUnit (20 units
\* are 1.0); a confidence is the fraction num/den of two whole numbers.

ProficiencyUnit == 20

\* "min_proficiency or 0.1": 0.1 in units
DefaultMinimum == 2

\* the agents that are evaluated: Agent._skills (set_skill accepts 0..1 only)
\* and Agent.permissions
EvalAgents ==
  [w18 |-> [skills |-> [writing |-> 18], permissions |-> {}],
   w6c1 |-> [skills |-> [writing |-> 6, coding |-> 1], permissions |-> {"p"}],
   c0 |-> [skills |-> [coding |-> 0], permissions |-> {"p"}]]

\* the requirements roles are registered with: RoleRequirement.skills and
\* RoleRequirement.permissions
Requirements ==
  { [skills |-> [writing |-> 12], permissions |-> {}],
    [skills |-> [writing |-> 12, coding |-> 0], permissions |-> {"p"}],
    [skills |-> [coding |-> 2], permissions |-> {"p", "q"}],
    [skills |-> [writing |-> 0 - 20], permissions |-> {}],
    [skills |-> <<>>, permissions |-> {"p"}] }

ManagedRoles == {"r1", "r2"}

\* agent_skills.get(skill, 0)
Proficiency(agent, skill) ==
  IF skill \in DOMAIN agent.skills THEN agent.skills[skill] ELSE 0

\* min_proficiency or 0.1
Divisor(min_proficiency) ==
  IF min_proficiency = 0 THEN DefaultMinimum ELSE min_proficiency

RECURSIVE Product(_, _)
Product(f, keys) ==
  IF keys = {} THEN 1
  ELSE LET k == CHOOSE x \in keys : TRUE IN f[k] * Product(f, keys \ {k})

RECURSIVE Sum(_, _)
Sum(f, keys) ==
  IF keys = {} THEN 0
  ELSE LET k == CHOOSE x \in keys : TRUE IN f[k] + Sum(f, keys \ {k})

RECURSIVE Power(_, _)
Power(base, n) == IF n = 0 THEN 1 ELSE base * Power(base, n - 1)

\* "if agent_proficiency < min_proficiency: missing_skills.append(...)"
MissingSkills(agent, requirements) ==
  { k \in DOMAIN requirements.skills :
      Proficiency(agent, k) < requirements.skills[k] }

\* [p for p in requirements.permissions if p not in agent.permissions]
MissingPermissions(agent, requirements) ==
  requirements.permissions \ agent.permissions

\* the fraction num/den with a positive denominator
Fraction(num, den) ==
  IF den < 0 THEN [num |-> 0 - num, den |-> 0 - den] ELSE [num |-> num, den |-> den]

\* min(1.0, p / d) as a number of d-ths
MatchQuality(p, d) ==
  IF d > 0 THEN (IF p < d THEN p ELSE d)     \* p / d < 1 exactly when p < d
  ELSE p                                     \* p / d <= 0 < 1

\* the confidence of evaluate_agent_for_role: match_quality summed over the
\* skills that are met, over the common denominator of the qualities;
\* divided by the number of required skills; times 1 - (missing / n) * 0.5
\* when skills are missing; times 0.8 ** (missing permissions)
Confidence(agent, requirements) ==
  LET required == DOMAIN requirements.skills
      missing_skills == MissingSkills(agent, requirements)
      divisors == [k \in required |-> Divisor(requirements.skills[k])]
      common == Product(divisors, required)
      quality == [k \in required |->
                    IF k \in missing_skills THEN 0
                    ELSE MatchQuality(Proficiency(agent, k), divisors[k])
                           * (common \div divisors[k])]
      n == Cardinality(required)
      missing == Cardinality(missing_skills)
      perms == Cardinality(MissingPermissions(agent, requirements))
  IN IF n > 0
     THEN Fraction(Sum(quality, required) * (2 * n - missing) * Power(4, perms),
                   common * n * (2 * n) * Power(5, perms))
     ELSE Fraction(0, 1)

\* evaluate_agent_for_role with "qualified" decided by the skills alone
EvaluateSkillsOnly(agent, requirements) ==
  [confidence |-> Confidence(agent, requirements),
   missing_skills |-> MissingSkills(agent, requirements),
   missing_permissions |-> MissingPermissions(agent, requirements),
   qualified |-> MissingSkills(agent, requirements) = {}]

\* RoleManager.evaluate_agent_for_role, the role being registered with the
\* requirements
EvaluateAgentForRole(agent, requirements) ==
  [confidence |-> Confidence(agent, requirements),
   missing_skills |-> MissingSkills(agent, requirements),
   missing_permissions |-> MissingPermissions(agent, requirements),
   qualified |-> /\ MissingSkills(agent, requirements) = {}
                 /\ MissingPermissions(agent, requirements) = {}]

\* what a call to the RoleManager or the TeamFormation returned: the
\* operation, the assignment or team id it was about, whether it returned
\* True (or returned at all, for the calls that raise), and for
\* evaluate_agent_for_role the agent, the role and the evaluation
NoOutcome == [op |-> "none", id |-> 0, returned |-> FALSE, agent |-> None,
              role |-> None, team |-> None, evaluation |-> None]

\* RoleManager.register_role(role_id, requirements)
RegisterRole(role_id, requirements) ==
  /\ IF role_id \in DOMAIN manager.roles
     THEN UNCHANGED manager           \* raise ValueError("... already registered")
     ELSE manager' = [manager EXCEPT !.roles = (role_id :> requirements) @@ @]
  /\ outcome' = [NoOutcome EXCEPT !.op = "register_role", !.role = role_id,
                                  !.returned = role_id \notin DOMAIN manager.roles]
  /\ UNCHANGED <<orchvars, memvars, busvars, teams, executed, toolvars>>

\* RoleManager.evaluate_agent_for_role(agent, role_id)
RoleEvaluate(agent, role_id) ==
  /\ outcome' =
       IF role_id \notin DOMAIN manager.roles
       THEN [NoOutcome EXCEPT !.op = "evaluate", !.agent = agent, !.role = role_id]
                                     \* raise ValueError("Unknown role: ...")
       ELSE [NoOutcome EXCEPT !.op = "evaluate", !.agent = agent, !.role = role_id,
                              !.returned = TRUE,
                              !.evaluation = EvaluateAgentForRole(EvalAgents[agent],
                                                                  manager.roles[role_id])]
  /\ UNCHANGED <<orchvars, memvars, busvars, manager, teams, executed, toolvars>>

\* the calls that register roles and evaluate agents for them
NextEvaluate ==
  \/ \E r \in ManagedRoles, q \in Requirements : RegisterRole(r, q)
  \/ \E a \in DOMAIN EvalAgents, r \in ManagedRoles : RoleEvaluate(a, r)

SpecEvaluate == Init /\ [][NextEvaluate]_vars

\* ------------------------------------------------------------ assignments
\* A confidence passed to assign_role is a whole number of tenths; an
\* assignment is named by its id, the number of the uuid4() value it was
\* made from; performance_score None is written NoScore.

ConfidenceUnit == 10

Confidences == {5, 15}

NoScore == 0 - 1

Scores == {7}

TeamIds == {"T"}

\* RoleAssignment(role_id, agent_id, confidence, metadata): the team is
\* metadata["team_id"], None without one
NewAssignment(id, role_id, agent_id, confidence, team_id) ==
  [id |-> id, role_id |-> role_id, agent_id |-> agent_id, confidence |-> confidence,
   performance_score |-> NoScore, team_id |-> team_id]

\* RoleManager.assign_role: the manager after the call (it returns the id)
AssignIn(m, id, role_id, agent_id, confidence, team_id) ==
  [m EXCEPT !.role_assignments =
              (id :> NewAssignment(id, role_id, agent_id, confidence, team_id)) @@ @]

\* complete_assignment without the removal from the active map
CompleteKeepActive(m, assignment_id, performance_score) ==
  IF assignment_id \notin DOMAIN m.role_assignments
  THEN [manager |-> m, returned |-> FALSE]
  ELSE [manager |->
          [m EXCEPT !.role_assignments[assignment_id].performance_score =
                      performance_score,
                    !.assignment_history =
                      Append(@, [m.role_assignments[assignment_id] EXCEPT
                                   !.performance_score = performance_score])],
        returned |-> TRUE]

\* RoleManager.complete_assignment: the manager after the call and what it
\* returns
CompleteIn(m, assignment_id, performance_score) ==
  IF assignment_id \notin DOMAIN m.role_assignments
  THEN [manager |-> m, returned |-> FALSE]
  ELSE [manager |->
          [m EXCEPT !.role_assignments =
                      Restrict(@, DOMAIN @ \ {assignment_id}),
                    !.assignment_history =
                      Append(@, [m.role_assignments[assignment_id] EXCEPT
                                   !.performance_score = performance_score])],
        returned |-> TRUE]

\* RoleManager.revoke_assignment: the manager after the call and what it
\* returns
RevokeIn(m, assignment_id) ==
  IF assignment_id \notin DOMAIN m.role_assignments
  THEN [manager |-> m, returned |-> FALSE]
  ELSE [manager |-> [m EXCEPT !.role_assignments =
                                Restrict(@, DOMAIN @ \ {assignment_id})],
        returned |-> TRUE]

\* "for role_id, assignment_id in roles.items(): revoke_assignment(...)"
RECURSIVE RevokeEach(_, _)
RevokeEach(m, ids) ==
  IF ids = {} THEN m
  ELSE LET id == CHOOSE x \in ids : TRUE
       IN RevokeEach(RevokeIn(m, id).manager, ids \ {id})

\* RoleManager.assign_role(role_id, agent_id, confidence)
ManagerAssignRole(role_id, agent_id, confidence) ==
  /\ uuids < MaxAssignments
  /\ uuids' = uuids + 1
  /\ manager' = AssignIn(manager, uuids + 1, role_id, agent_id, confidence, None)
  /\ outcome' = [NoOutcome EXCEPT !.op = "assign_role", !.id = uuids + 1,
                                  !.returned = TRUE]
  /\ UNCHANGED <<orchvars, memory, access_permissions, now, ret, busvars, teams,
                 executed, toolvars>>

\* RoleManager.complete_assignment(assignment_id, performance_score)
ManagerCompleteAssignment(assignment_id, performance_score) ==
  LET r == CompleteIn(manager, assignment_id, performance_score)
  IN /\ manager' = r.manager
     /\ outcome' = [NoOutcome EXCEPT !.op = "complete_assignment",
                                     !.id = assignment_id, !.returned = r.returned]
     /\ UNCHANGED <<orchvars, memvars, busvars, teams, executed, toolvars>>

\* RoleManager.revoke_assignment(assignment_id)
ManagerRevokeAssignment(assignment_id) ==
  LET r == RevokeIn(manager, assignment_id)
  IN /\ manager' = r.manager
     /\ outcome' = [NoOutcome EXCEPT !.op = "revoke_assignment",
                                     !.id = assignment_id, !.returned = r.returned]
     /\ UNCHANGED <<orchvars, memvars, busvars, teams, executed, toolvars>>

\* TeamFormation.create_team(team_id, name)
TeamCreate(team_id) ==
  /\ IF team_id \in DOMAIN teams
     THEN UNCHANGED teams              \* raise ValueError("... already exists")
     ELSE teams' = (team_id :> [roles |-> <<>>]) @@ teams
  /\ outcome' = [NoOutcome EXCEPT !.op = "create_team", !.team = team_id,
                                  !.returned = team_id \notin DOMAIN teams]
  /\ UNCHANGED <<orchvars, memvars, busvars, manager, executed, toolvars>>

\* TeamFormation.assign_role_to_team(team_id, role_id, agent_id, confidence)
TeamAssignRole(team_id, role_id, agent_id, confidence) ==
  IF team_id \notin DOMAIN teams
  THEN /\ outcome' = [NoOutcome EXCEPT !.op = "assign_role_to_team",
                                       !.team = team_id]
                                       \* raise ValueError("... does not exist")
       /\ UNCHANGED <<orchvars, memvars, busvars, manager, teams, executed, toolvars>>
  ELSE /\ uuids < MaxAssignments
       /\ uuids' = uuids + 1
       /\ manager' = AssignIn(manager, uuids + 1, role_id, agent_id, confidence,
                              team_id)
       /\ teams' = [teams EXCEPT ![team_id].roles = (role_id :> (uuids + 1)) @@ @]
       /\ outcome' = [NoOutcome EXCEPT !.op = "assign_role_to_team",
                                       !.team = team_id, !.id = uuids + 1,
                                       !.returned = TRUE]
       /\ UNCHANGED <<orchvars, memory, access_permissions, now, ret, busvars,
                      executed, toolvars>>

\* TeamFormation.remove_role_from_team(team_id, role_id)
TeamRemoveRole(team_id, role_id) ==
  IF team_id \notin DOMAIN teams \/ role_id \notin DOMAIN teams[team_id].roles
  THEN /\ outcome' = [NoOutcome EXCEPT !.op = "remove_role_from_team",
                                       !.team = team_id]
       /\ UNCHANGED <<orchvars, memvars, busvars, manager, teams, executed, toolvars>>
  ELSE /\ manager' = RevokeIn(manager, teams[team_id].roles[role_id]).manager
       /\ teams' = [teams EXCEPT ![team_id].roles =
                                   Restrict(@, DOMAIN @ \ {role_id})]
       /\ outcome' = [NoOutcome EXCEPT !.op = "remove_role_from_team",
                                       !.team = team_id, !.returned = TRUE]
       /\ UNCHANGED <<orchvars, memvars, busvars, executed, toolvars>>

\* TeamFormation.disband_team(team_id)
TeamDisband(team_id) ==
  IF team_id \notin DOMAIN teams
  THEN /\ outcome' = [NoOutcome EXCEPT !.op = "disband_team", !.team = team_id]
       /\ UNCHANGED <<orchvars, memvars, busvars, manager, teams, executed, toolvars>>
  ELSE /\ manager' = RevokeEach(manager, { teams[team_id].roles[r] :
                                             r \in DOMAIN teams[team_id].roles })
       /\ teams' = Restrict(teams, DOMAIN teams \ {team_id})
       /\ outcome' = [NoOutcome EXCEPT !.op = "disband_team", !.team = team_id,
                                       !.returned = TRUE]
       /\ UNCHANGED <<orchvars, memvars, busvars, executed, toolvars>>

\* the calls to a RoleManager and to the TeamFormation around it
NextAssignments ==
  \/ \E r \in ManagedRoles, c \in Confidences : ManagerAssignRole(r, "a1", c)
  \/ \E id \in 1..(MaxAssignments + 1), score \in Scores :
       ManagerCompleteAssignment(id, score)
  \/ \E id \in 1..(MaxAssignments + 1) : ManagerRevokeAssignment(id)
  \/ \E t \in TeamIds : TeamCreate(t)
  \/ \E t \in TeamIds, r \in ManagedRoles, c \in Confidences :
       TeamAssignRole(t, r, "a1", c)
  \/ \E t \in TeamIds, r \in ManagedRoles : TeamRemoveRole(t, r)
  \/ \E t \in TeamIds : TeamDisband(t)

SpecAssignments == Init /\ [][NextAssignments]_vars

\* ------------------------------------------------------------ tool compositions
\* A step input is a literal, a str "${<step>.<key>}" (written as the
\* record of kind "ref") or a str "$input.<key>" (kind "input"). What a
\* tool does when the agent executes it is an input of the model: it
\* returns a dict, returns another value, or raises an Exception.

Literal(value) == [kind |-> "literal", value |-> value]

StepRef(step_id, key) == [kind |-> "ref", step |-> step_id, key |-> key]

InputRef(key) == [kind |-> "input", key |-> key]

\* the steps compositions are built from, as add_step makes them
StepChoices ==
  { [id |-> "s1", tool |-> "t1", inputs |-> ("x" :> InputRef("q"))],
    [id |-> "s2", tool |-> "t2", inputs |-> ("x" :> StepRef("s1", "out")
                                             @@ "y" :> Literal("v"))],
    [id |-> "s1", tool |-> "t2", inputs |-> ("x" :> StepRef("s2", "result"))] }

ToolOutcomes == {"dict", "value", "raises"}

\* the output mappings of a composition: none, or one that maps the output
\* "out" of step s1 to the composition output "o"
OutputMappings == { <<>>, ("o" :> [step_id |-> "s1", output |-> "out"]) }

\* the compositions that are executed: up to MaxSteps steps
RECURSIVE StepLists(_)
StepLists(n) ==
  IF n = 0 THEN { <<>> }
  ELSE StepLists(n - 1)
         \cup { Append(l, c) : l \in { x \in StepLists(n - 1) : Len(x) = n - 1 },
                               c \in StepChoices }

\* the input_values of a call
InputValues == ("q" :> "v")

\* "Process inputs for this step": the keyword arguments the tool is called
\* with; a reference that does not resolve leaves its key out
ProcessInputs(step, step_results, input_values) ==
  LET resolves(v) ==
        CASE v.kind = "ref" ->
               v.step \in DOMAIN step_results /\ v.key \in DOMAIN step_results[v.step]
          [] v.kind = "input" -> v.key \in DOMAIN input_values
          [] OTHER -> TRUE
      value(v) ==
        CASE v.kind = "ref" -> step_results[v.step][v.key]
          [] v.kind = "input" -> input_values[v.key]
          [] OTHER -> v.value
  IN [k \in { k \in DOMAIN step.inputs : resolves(step.inputs[k]) } |->
        value(step.inputs[k])]

\* "result if isinstance(result, dict) else {"result": result}", and
\* {"error": str(e)} for a tool that raised
StepResult(does) ==
  CASE does = "dict" -> ("out" :> "v")
    [] does = "value" -> ("result" :> "v")
    [] OTHER -> ("error" :> "boom")

\* the step loop stopping at the first tool that raises
RECURSIVE RunStepsFailStop(_, _, _, _, _)
RunStepsFailStop(steps, outcomes, input_values, k, acc) ==
  IF k > Len(steps) THEN acc
  ELSE LET step == steps[k]
           call == [id |-> step.id, tool |-> step.tool,
                    inputs |-> ProcessInputs(step, acc.step_results, input_values)]
           next == [step_results |-> (step.id :> StepResult(outcomes[k]))
                                       @@ acc.step_results,
                    invoked |-> Append(acc.invoked, call),
                    logs |-> IF outcomes[k] = "raises"
                             THEN Append(acc.logs, step.id) ELSE acc.logs]
       IN IF outcomes[k] = "raises" THEN next
          ELSE RunStepsFailStop(steps, outcomes, input_values, k + 1, next)

\* "for step in composition['steps']": the step results, the calls of
\* execute_tool and the error log after the steps from the k-th on
RECURSIVE RunSteps(_, _, _, _, _)
RunSteps(steps, outcomes, input_values, k, acc) ==
  IF k > Len(steps) THEN acc
  ELSE LET step == steps[k]
           call == [id |-> step.id, tool |-> step.tool,
                    inputs |-> ProcessInputs(step, acc.step_results, input_values)]
       IN RunSteps(steps, outcomes, input_values, k + 1,
                   [step_results |-> (step.id :> StepResult(outcomes[k]))
                                       @@ acc.step_results,
                    invoked |-> Append(acc.invoked, call),
                    logs |-> IF outcomes[k] = "raises"
                             THEN Append(acc.logs, step.id) ELSE acc.logs])

\* "Process output mappings": result.get(output_path) of the mapped step,
\* None without the key; a step that is not in step_results maps nothing
Outputs(output_mappings, step_results) ==
  [o \in { o \in DOMAIN output_mappings :
             output_mappings[o].step_id \in DOMAIN step_results } |->
     LET result == step_results[output_mappings[o].step_id]
     IN IF output_mappings[o].output \in DOMAIN result
        THEN result[output_mappings[o].output] ELSE None]

\* ToolExecutor.execute_composition(composition, input_values), the tool of
\* the k-th step doing outcomes[k]; the executor keeps nothing from one
\* call to the next (context and step_results are locals), so one call is
\* made on it
ExecuteComposition(steps, output_mappings, outcomes) ==
  /\ executed.op = "none"
  /\ LET r == RunSteps(steps, outcomes, InputValues, 1,
                       [step_results |-> <<>>, invoked |-> <<>>, logs |-> <<>>])
     IN executed' = [op |-> "execute_composition",
                     composition |-> [steps |-> steps,
                                      output_mappings |-> output_mappings],
                     outcomes |-> outcomes,
                     invoked |-> r.invoked,
                     steps |-> r.step_results,
                     outputs |-> Outputs(output_mappings, r.step_results),
                     logs |-> r.logs,
                     raised |-> FALSE]
  /\ UNCHANGED <<orchvars, memvars, busvars, manager, teams, outcome, toolvars>>

\* the calls to a ToolExecutor
NextTools ==
  \E steps \in StepLists(MaxSteps), mappings \in OutputMappings :
    \E outcomes \in [1..Len(steps) -> ToolOutcomes] :
      ExecuteComposition(steps, mappings, outcomes)

SpecTools == Init /\ [][NextTools]_vars

\* ------------------------------------------------------------ termination
\* the calls start_workflow(workflow_id, initial_context) whose instances
\* are followed to their end
LiveCalls == {"W2", "W4"} \X {EmptyDict}

\* the steps a coroutine that has begun takes by itself: listeners return,
\* a tool call returns or raises
CoroutineSteps ==
  \/ \E i \in InstanceIds : EnterLoop(i)
  \/ \E i \in InstanceIds : RunStep(i)
  \/ \E i \in InstanceIds, out \in ToolReturns : ToolReturn(i, out)
  \/ \E i \in InstanceIds : ToolRaise(i)
  \/ \E i \in InstanceIds : StepReturn(i)

\* the frames these steps can give instance i
NextFrames(i) ==
  IF tasks[i].pc = "workflow_started" THEN {LoopTop(Frame(i), WorkflowOf(i))}
  ELSE IF tasks[i].pc = "step_started"
  THEN {BeginStep(Frame(i), WorkflowOf(i), agents, role_assignments)}
  ELSE IF tasks[i].pc = "tool"
  THEN {FinishStep(Frame(i), WorkflowOf(i), BuildResult(out, tasks[i].agent_id)) :
          out \in ToolReturns}
         \cup {OnException(Frame(i), WorkflowOf(i), "tool raised")}
  ELSE IF tasks[i].pc = "step_completed" THEN {AfterStep(Frame(i), WorkflowOf(i))}
  ELSE {}

\* ENABLED <<CoroutineSteps>>_vars, written out as a state predicate
CoroutineEnabled ==
  \E i \in InstanceIds :
    \E g \in NextFrames(i) : Len(g.hist.started) <= MaxStarted

\* the event loop and the coroutines; the callers cancel an instance,
\* assign the registered agent to step S1 and give it the role r1
NextLive ==
  \/ \E call \in LiveCalls : StartWorkflow(call[1], call[2], MaxInstances)
  \/ TaskStart
  \/ CoroutineSteps
  \/ \E i \in InstanceIds : CancelWorkflowInstance(i)
  \/ \E i \in InstanceIds : AssignAgentToStep(i, "S1", "a1")
  \/ AssignRole("r1", "a1")

\* the event loop begins the tasks in its queue; a coroutine that has begun
\* runs on (its code is synchronous) and every tool call returns or raises:
\* weak fairness of TaskStart and of CoroutineSteps
SpecLive ==
  /\ Init /\ [][NextLive]_vars
  /\ WF_vars(TaskStart)
  /\ ([]<>~CoroutineEnabled \/ []<><<CoroutineSteps>>_vars)

\* ------------------------------------------------------------ tool registry
\* Two agent classes derived from Agent and one agent of each. Agent.__init__
\* sets self.tools = ToolRegistry(), and ToolRegistryMeta.__call__ keeps one
\* instance per class it is the metaclass of: the key is the registry class.
AgentTypes == {"Writer", "Coder"}

ToolAgents == {"w1", "c1"}

TypeOf(agent) == IF agent = "w1" THEN "Writer" ELSE "Coder"

\* Agent.permissions as set up by the callers
PermissionsOf(agent) == IF agent = "w1" THEN {"publish"} ELSE {}

ToolNames == {"draft", "build"}

\* ToolRegistry(): ToolRegistryMeta.__call__ followed by ToolRegistry.__init__
\* for the first call; cls is the class ToolRegistry itself
ToolRegistryCall(registries, agent_type) ==
  IF "ToolRegistry" \in DOMAIN registries THEN registries
  ELSE ("ToolRegistry" :> [tools |-> <<>>, by |-> {}]) @@ registries

\* self.tools of an agent: the instance its __init__ got from ToolRegistry()
ToolsOf(registries, agent) == ToolRegistryCall(registries, TypeOf(agent)).ToolRegistry

\* agent.register_tool(name=..., required_permissions=...)(func)
RegisterTool(agent, tool_name, required_permissions) ==
  LET registries == ToolRegistryCall(registry_instances, TypeOf(agent))
      reg == registries.ToolRegistry
  IN /\ registry_instances' =
          [registries EXCEPT !.ToolRegistry =
             [tools |-> (tool_name :> [required_permissions |-> required_permissions])
                          @@ reg.tools,
              by |-> reg.by \cup {<<TypeOf(agent), tool_name>>}]]
     /\ UNCHANGED <<orchvars, memvars, busvars, manager, teams, outcome, executed,
                    called>>

\* agent.execute_tool(tool_name): ValueError for a name that is not in
\* self.tools.tools, PermissionError for a required permission the agent
\* lacks, else the tool function is called with the agent
ExecuteTool(agent, tool_name) ==
  LET registries == ToolRegistryCall(registry_instances, TypeOf(agent))
      tools == ToolsOf(registry_instances, agent).tools
      result ==
        IF tool_name \notin DOMAIN tools THEN "not registered"
        ELSE IF \E permission \in tools[tool_name].required_permissions :
                  permission \notin PermissionsOf(agent)
        THEN "lacks permission"
        ELSE "executed"
  IN /\ registry_instances' = registries
     /\ called' = [op |-> "execute_tool", agent |-> agent, tool |-> tool_name,
                   result |-> result,
                   registered_by |-> {q[1] : q \in {r \in registries.ToolRegistry.by :
                                                      r[2] = tool_name}},
                   required_permissions |->
                     IF tool_name \in DOMAIN tools
                     THEN tools[tool_name].required_permissions ELSE {}]
     /\ UNCHANGED <<orchvars, memvars, busvars, manager, teams, outcome, executed>>

NextRegistry ==
  \/ \E agent \in ToolAgents, tool_name \in ToolNames,
        required_permissions \in {{}, {"publish"}} :
       RegisterTool(agent, tool_name, required_permissions)
  \/ \E agent \in ToolAgents, tool_name \in ToolNames : ExecuteTool(agent, tool_name)

SpecRegistry == Init /\ [][NextRegistry]_vars

\* ------------------------------------------------------------ claims
\* the step whose execution is under way in the coroutine of instance i
CurrentStep(i) == WorkflowOf(i).steps[FindStep(WorkflowOf(i), tasks[i].step_id)]

\* in this step a started step of instance i ended by raising / by returning
RaisedNow(i) ==
  /\ Len(hist'[i].outcomes) = Len(hist[i].outcomes) + 1
  /\ hist'[i].outcomes[Len(hist'[i].outcomes)] = "raised"

ReturnedNow(i) ==
  /\ Len(hist'[i].outcomes) = Len(hist[i].outcomes) + 1
  /\ hist'[i].outcomes[Len(hist'[i].outcomes)] = "returned"

\* C1: once an instance is completed, failed or cancelled, no later step
\* changes its status.
C1_TerminalStatusIsFinal ==
  [][\A i \in InstanceIds :
       instances[i].status \in Terminal
         => instances'[i].status = instances[i].status]_vars

\* C5: whenever an instance is running, its current_step_id is the id of a
\* step of its workflow definition.
C5_RunningStepExists ==
  \A i \in InstanceIds :
    instances[i].status = "running"
      => FindStep(WorkflowOf(i), instances[i].current_step_id) # 0

\* the step of instance i that was started and has not ended yet
InFlight(i) == Len(hist[i].started) > Len(hist[i].outcomes)

\* C8: after cancel_workflow_instance returned True for an instance, no
\* further step of it is started, only the step in flight may still write a
\* result or the context, and no workflow_completed or workflow_failed event
\* is emitted for it.
C8_CancelledInstanceStops ==
  [][\A i \in InstanceIds :
       hist[i].cancelled
         => /\ hist'[i].started = hist[i].started
            /\ (hist'[i].events \ hist[i].events)
                 \cap {"workflow_completed", "workflow_failed"} = {}
            /\ ~InFlight(i)
                 => /\ instances'[i].step_results = instances[i].step_results
                    /\ instances'[i].context = instances[i].context]_vars

\* a str of the form ${context.<path>}
IsContextTemplate(v) ==
  /\ Len(v) >= 6
  /\ SubSeq(v, 1, 4) = <<"$", "{", "context", ".">>
  /\ v[Len(v)] = "}"

\* the value found by walking the context along the dotted path that
\* follows "context." in the template (None when there is none)
ContextLookup(ctx, v) ==
  LET w == WalkFrom(ctx, <<>>, PathOf(SubSeq(v, 5, Len(v) - 1)))
  IN IF w.ok THEN SubTree(ctx, w.at) ELSE NoneTree

\* C9: when the tool of a step is invoked, every input of the form
\* ${context.a.b} holds the value at a.b of the instance's context, and every
\* input that is no ${...} template holds the value the step declares.
C9_InputTemplating ==
  \A i \in InstanceIds :
    tasks[i].pc = "tool"
      => \A k \in DOMAIN CurrentStep(i).inputs :
           LET v == CurrentStep(i).inputs[k]
           IN /\ IsContextTemplate(v)
                   => tasks[i].resolved[k] = ContextLookup(instances[i].context, v)
              /\ ~StartsWith2(v, "$", "{")
                   => tasks[i].resolved[k] = Leaf(StrV(v))

\* C2: when the execution of a step without on_failure raises, the instance
\* becomes failed, one failure entry is appended to its error log, no result
\* is stored for the step and the coroutine ends; an instance whose
\* coroutine has ended starts no further step.
C2_FailStop ==
  [][\A i \in InstanceIds :
       /\ (RaisedNow(i) /\ ~Truthy(CurrentStep(i).on_failure))
            => /\ instances'[i].status = "failed"
               /\ Len(instances'[i].errors) = Len(instances[i].errors) + 1
               /\ SubSeq(instances'[i].errors, 1, Len(instances[i].errors))
                    = instances[i].errors
               /\ instances'[i].errors[Len(instances'[i].errors)].message[1]
                    = "Step execution error"
               /\ instances'[i].step_results = instances[i].step_results
               /\ hist'[i].started = hist[i].started
               /\ tasks'[i].pc = "done"
       /\ tasks[i].pc = "done"
            => /\ tasks'[i] = tasks[i]
               /\ hist'[i].started = hist[i].started]_vars

C2_Witness ==
  \E i \in InstanceIds :
    /\ instances[i].status = "failed"
    /\ tasks[i].pc = "done"
    /\ hist[i].outcomes # <<>>
    /\ hist[i].outcomes[Len(hist[i].outcomes)] = "raised"
    /\ instances[i].errors[Len(instances[i].errors)].message
         = <<"Step execution error", "tool raised">>
    /\ hist[i].started[Len(hist[i].started)] \notin DOMAIN instances[i].step_results

\* C3 as stated: when the execution of a step with on_failure raises in a
\* running instance, exactly one entry is appended to the error log, the
\* instance stays running and the next step started is the on_failure step.
C3_RedirectAlways ==
  [][\A i \in InstanceIds :
       (/\ RaisedNow(i)
        /\ Truthy(CurrentStep(i).on_failure)
        /\ instances[i].status = "running")
         => /\ Len(instances'[i].errors) = Len(instances[i].errors) + 1
            /\ instances'[i].status = "running"
            /\ hist'[i].started = Append(hist[i].started, CurrentStep(i).on_failure)]_vars

\* C3 as amended: when the execution of a step raises and its on_failure
\* names a step of the workflow, exactly one entry is appended to the error
\* log, the status of the instance is not changed (a running instance stays
\* running) and the next step started is the on_failure step.
C3_RedirectToExistingStep ==
  [][\A i \in InstanceIds :
       (/\ RaisedNow(i)
        /\ Truthy(CurrentStep(i).on_failure)
        /\ FindStep(WorkflowOf(i), CurrentStep(i).on_failure) # 0)
         => /\ Len(instances'[i].errors) = Len(instances[i].errors) + 1
            /\ SubSeq(instances'[i].errors, 1, Len(instances[i].errors))
                 = instances[i].errors
            /\ instances'[i].status = instances[i].status
            /\ instances'[i].status # "failed"
            /\ hist'[i].started = Append(hist[i].started, CurrentStep(i).on_failure)
            /\ instances'[i].current_step_id = CurrentStep(i).on_failure]_vars

C3_Witness ==
  \E i \in InstanceIds :
    /\ instances[i].workflow_id = "W2"
    /\ instances[i].status = "running"
    /\ hist[i].started = <<"S1", "S3">>
    /\ hist[i].outcomes = <<"raised">>
    /\ Len(instances[i].errors) = 1
    /\ tasks[i].pc = "step_started"

\* the status field of a step result
StatusOf(result) == result[<<"status">>].s[1]

\* transitions[step][status] if that key exists, else transitions[step]
\* ["default"] if it exists, else no next step
ClaimedNext(wf, step_id, status) ==
  LET t == wf.transitions
  IN IF step_id \in DOMAIN t /\ status \in DOMAIN t[step_id]
     THEN t[step_id][status]
     ELSE IF step_id \in DOMAIN t /\ "default" \in DOMAIN t[step_id]
     THEN t[step_id]["default"]
     ELSE None

ErrorResult == ReplaceSub(EmptyDict, <<"status">>, Leaf(StrV(<<"error">>)))

\* C4: after a step returned a result the next step is the one the
\* transition table gives for the status of the result, else its "default"
\* entry, else none, and with none the instance ends completed; for S1 with
\* transitions {success: S2}, success leads to S2 and error nowhere.
C4_NextStepResolution ==
  [][/\ NextStep(Workflows.W1, "S1", PassThroughResult) = "S2"
     /\ NextStep(Workflows.W1, "S1", ErrorResult) = None
     /\ \A i \in InstanceIds :
          ReturnedNow(i)
            => LET wf == WorkflowOf(i)
                   n == ClaimedNext(wf, tasks[i].step_id, StatusOf(tasks[i].result))
               IN /\ instances'[i].step_results[tasks[i].step_id] = tasks[i].result
                  /\ IF n = None
                     THEN /\ instances'[i].status = "completed"
                          /\ hist'[i].started = hist[i].started
                          /\ tasks'[i].pc = "done"
                     ELSE IF FindStep(wf, n) # 0
                     THEN /\ hist'[i].started = Append(hist[i].started, n)
                          /\ instances'[i].status = instances[i].status
                     ELSE /\ instances'[i].status = "failed"
                          /\ hist'[i].started = hist[i].started]_vars

C4_Witness ==
  \E i \in InstanceIds :
    /\ instances[i].workflow_id = "W2"
    /\ instances[i].status = "completed"
    /\ hist[i].started = <<"S1", "S2">>
    /\ hist[i].outcomes = <<"returned", "returned">>
    /\ instances[i].errors = <<>>

InitialStepOf(wf) ==
  IF Truthy(wf.initial_step_id) THEN wf.initial_step_id ELSE wf.steps[1].id

\* the targets of the transitions of a step
TransitionTargets(wf, step_id) ==
  IF step_id \in DOMAIN wf.transitions
  THEN {wf.transitions[step_id][k] : k \in DOMAIN wf.transitions[step_id]}
  ELSE {}

\* C7: of every instance at most one step is started and not yet ended, the
\* first step started is the initial step, and each later one is a
\* transition target of the step before it if that one returned, its
\* on_failure step if that one raised.
C7_SequentialPath ==
  \A i \in InstanceIds :
    LET h == hist[i]
        wf == WorkflowOf(i)
    IN /\ Len(h.outcomes) <= Len(h.started)
       /\ Len(h.started) <= Len(h.outcomes) + 1
       /\ h.started # <<>> => h.started[1] = InitialStepOf(wf)
       /\ \A k \in 1..(Len(h.started) - 1) :
            IF h.outcomes[k] = "returned"
            THEN h.started[k + 1] \in TransitionTargets(wf, h.started[k])
            ELSE h.started[k + 1] = wf.steps[FindStep(wf, h.started[k])].on_failure

C7_Witness ==
  \E i \in InstanceIds :
    /\ instances[i].workflow_id = "W1"
    /\ hist[i].started = <<"S1", "S2">>
    /\ hist[i].outcomes = <<"returned">>
    /\ tasks[i].pc = "step_started"

\* an input value that is a ${...} template whose path the context of the
\* instance does not resolve
Unresolvable(ctx, v) ==
  /\ StartsWith2(v, "$", "{")
  /\ EndsWith(v, "}")
  /\ ~WalkFrom(ctx, <<>>, PathOf(SubSeq(v, 3, Len(v) - 1))).ok

\* C10: a step with a tool and a usable agent, one of whose input templates
\* does not resolve, goes on to the tool call with None for that input;
\* nothing is appended to the error log and the status is unchanged.
C10_UnresolvedIsNone ==
  [][\A i \in InstanceIds :
       (/\ tasks[i].pc = "step_started"
        /\ tasks'[i] # tasks[i]
        /\ Truthy(CurrentStep(i).tool_required)
        /\ AgentUsable(ResolveAgent(instances[i], CurrentStep(i), role_assignments),
                       agents))
         => /\ tasks'[i].pc = "tool"
            /\ instances'[i] = instances[i]
            /\ \A k \in DOMAIN CurrentStep(i).inputs :
                 Unresolvable(instances[i].context, CurrentStep(i).inputs[k])
                   => tasks'[i].resolved[k] = NoneTree]_vars

C10_Witness ==
  \E i \in InstanceIds :
    /\ tasks[i].pc = "tool"
    /\ instances[i].context = CtxBob
    /\ instances[i].status = "running"
    /\ instances[i].errors = <<>>
    /\ Unresolvable(instances[i].context, CurrentStep(i).inputs["x"])
    /\ Unresolvable(instances[i].context, CurrentStep(i).inputs["z"])
    /\ tasks[i].resolved["x"] = NoneTree
    /\ tasks[i].resolved["z"] = NoneTree

\* the agent the resolution rule names for a step of an instance: the
\* per-step assignment if there is one, else the agent of the oldest
\* assignment held for the required role, else none
ClaimedAgent(inst, step) ==
  IF step.id \in DOMAIN inst.agent_assignments
  THEN inst.agent_assignments[step.id]
  ELSE IF step.role_required # None
            /\ \E k \in 1..Len(role_assignments) :
                 role_assignments[k].role_id = step.role_required
  THEN role_assignments[CHOOSE k \in 1..Len(role_assignments) :
         /\ role_assignments[k].role_id = step.role_required
         /\ \A j \in 1..(k - 1) :
              role_assignments[j].role_id # step.role_required].agent_id
  ELSE None

\* C11: when a step goes on after its step_started listeners, the agent is
\* the per-step assignment of the instance if there is one, else the agent of
\* the first assignment (in creation order) held for the required role; if
\* that gives no agent or an unregistered one the step raises and no tool is
\* invoked, with or without a tool declared; otherwise a step with a tool
\* reaches the tool call with that agent.
C11_AgentResolution ==
  [][\A i \in InstanceIds :
       (tasks[i].pc = "step_started" /\ tasks'[i] # tasks[i])
         => LET a == ClaimedAgent(instances[i], CurrentStep(i))
            IN IF a = None \/ a \notin agents
               THEN /\ RaisedNow(i)
                    /\ tasks'[i].pc # "tool"
                    /\ instances'[i].step_results = instances[i].step_results
               ELSE IF Truthy(CurrentStep(i).tool_required)
               THEN tasks'[i].pc = "tool" /\ tasks'[i].agent_id = a
               ELSE ~RaisedNow(i) /\ tasks'[i].pc = "step_completed"]_vars

\* the tool of S1 is called with the explicitly assigned agent a1 while the
\* oldest assignment of role r1 names the unregistered a2
C11_Witness ==
  \E i \in InstanceIds :
    /\ tasks[i].pc = "tool"
    /\ tasks[i].agent_id = "a1"
    /\ instances[i].agent_assignments = ("S1" :> "a1")
    /\ Len(role_assignments) = 2
    /\ role_assignments[1] = [role_id |-> "r1", agent_id |-> "a2"]
    /\ role_assignments[2] = [role_id |-> "r1", agent_id |-> "a1"]

\* C12: an AgentMemory never holds more items than its capacity.
C12_CapacityBound == Cardinality(DOMAIN memory.memories) <= max_size

\* the item stored under key k carries tag t / the context pair whose index
\* key is c
CarriesTag(k, t) ==
  k \in DOMAIN memory.memories /\ t \in Range(memory.memories[k].tags)

CarriesPair(k, c) ==
  /\ k \in DOMAIN memory.memories
  /\ \E key \in DOMAIN memory.memories[k].context :
       IndexKey(key, memory.memories[k].context[key]) = c

\* C13: an id is listed in the tag index under tag t (in the context index
\* under key:value) if and only if the item is in the item map and carries
\* that tag (that context pair).
C13_IndexConsistency ==
  /\ \A t \in DOMAIN memory.tags_index :
       \A k \in memory.tags_index[t] : CarriesTag(k, t)
  /\ \A c \in DOMAIN memory.context_index :
       \A k \in memory.context_index[c] : CarriesPair(k, c)
  /\ \A k \in DOMAIN memory.memories :
       /\ \A t \in Range(memory.memories[k].tags) :
            t \in DOMAIN memory.tags_index /\ k \in memory.tags_index[t]
       /\ \A c \in ContextKeys(memory.memories[k].context) :
            c \in DOMAIN memory.context_index /\ k \in memory.context_index[c]

\* the expiration time of the item stored under key k has passed
ExpirationPassed(k) ==
  memory.memories[k].expiration # 0 /\ now > memory.memories[k].expiration

\* the item stored under key k has a tag that contains the query tag q as a
\* case-insensitive substring
TagMatches(k, q) ==
  \E t \in Range(memory.memories[k].tags) : Contains(Lower(q), Lower(t))

\* C14: search_by_tags with require_all=True returns exactly the
\* non-expired items that match every query tag, with require_all=False
\* exactly those that match at least one.
C14_SearchByTags ==
  \A tags \in TagQueries, require_all \in BOOLEAN :
    SearchByTags(memory, tags, require_all, now).keys
      = {k \in DOMAIN memory.memories :
           /\ ~ExpirationPassed(k)
           /\ IF require_all THEN \A q \in Range(tags) : TagMatches(k, q)
              ELSE \E q \in Range(tags) : TagMatches(k, q)}

\* C15: search_by_context returns exactly the non-expired items whose
\* context holds every pair of the query, and nothing for an empty query.
C15_SearchByContext ==
  /\ SearchByContext(memory, <<>>, now).keys = {}
  /\ \A pairs \in ContextQueries :
       SearchByContext(memory, pairs, now).keys
         = {k \in DOMAIN memory.memories :
              /\ ~ExpirationPassed(k)
              /\ \A p \in Range(pairs) :
                   /\ p[1] \in DOMAIN memory.memories[k].context
                   /\ memory.memories[k].context[p[1]] = p[2]}

\* the keys a read of the memory hands out, for every read of the model
ReadResults ==
  {IF Retrieve(memory, k, now).found THEN {k} ELSE {} : k \in 1..MaxUuids}
    \cup {SearchByTags(memory, tags, ra, now).keys :
            tags \in TagQueries, ra \in BOOLEAN}
    \cup {SearchByContext(memory, pairs, now).keys : pairs \in ContextQueries}
    \cup {SearchByRelevance(memory, query, limit, now).keys :
            query \in RelevanceQueries, limit \in {1, 5}}

\* the item maps an operation of the model can leave behind
NextItemMaps ==
  {DOMAIN Store(memory, call, uuids + 1).memories \ {uuids + 1} : call \in StoreCalls}
    \cup {DOMAIN Update(memory, k, updates, now).memory.memories :
            k \in 1..MaxUuids, updates \in UpdateCalls}
    \cup {DOMAIN Retrieve(memory, k, now).memory.memories : k \in 1..MaxUuids}
    \cup {DOMAIN Forget(memory, k).memories : k \in 1..MaxUuids}
    \cup {DOMAIN DecayAll(memory).memories}

\* C16: no read hands out an item whose expiration time has passed;
\* retrieve of an expired id returns nothing and takes the item out of the
\* item map, a second retrieve returns nothing either, and no operation
\* brings back an id that has left the item map.
C16_NoExpiredRead ==
  /\ \A keys \in ReadResults :
       \A k \in keys : k \in DOMAIN memory.memories /\ ~ExpirationPassed(k)
  /\ \A k \in DOMAIN memory.memories :
       ExpirationPassed(k)
         => LET r == Retrieve(memory, k, now)
            IN /\ ~r.found
               /\ k \notin DOMAIN r.memory.memories
               /\ ~Retrieve(r.memory, k, now).found
  /\ \A keys \in NextItemMaps : keys \subseteq DOMAIN memory.memories

\* an expired item has been purged by a read (only a purge leaves the id of
\* an absent item in an index), another item is still readable
C16_Witness ==
  \E k \in 1..uuids :
    /\ k \notin DOMAIN memory.memories
    /\ \E t \in DOMAIN memory.tags_index : k \in memory.tags_index[t]
    /\ \E j \in DOMAIN memory.memories : Retrieve(memory, j, now).found

\* C17: decay_all multiplies the importance of every stored item by the
\* decay rate; afterwards every item in the store has importance >= 0.05
\* and every item whose decayed importance is below 0.05 is gone.
C17_DecayFloor ==
  (\A k \in DOMAIN memory.memories :
     (memory.memories[k].importance * DecayNum) % DecayDen = 0)
    => LET m == DecayAll(memory)
       IN /\ \A k \in DOMAIN m.memories :
               /\ m.memories[k].importance * DecayDen
                    = memory.memories[k].importance * DecayNum
               /\ m.memories[k].importance >= ForgetBelow
          /\ \A k \in DOMAIN memory.memories :
               memory.memories[k].importance * DecayNum < ForgetBelow * DecayDen
                 => k \notin DOMAIN m.memories

\* the permission map grants agent a the right to read / to write
MayRead(a) ==
  a \in DOMAIN access_permissions /\ access_permissions[a].read = TRUE

MayWrite(a) ==
  a \in DOMAIN access_permissions /\ access_permissions[a].write = TRUE

ChannelPair(channel) == {channel.agent_a, channel.agent_b}

\* C19: get_or_create_channel(A, B) and get_or_create_channel(B, A) return
\* the same channel and the second call leaves the bus as it is; the bus
\* holds at most one channel per unordered pair of agents; every channel is
\* registered under its id in channels and under the sorted pair of its
\* agents in direct_channels, and direct_channels holds nothing else.
C19_ChannelUniqueness ==
  /\ \A a \in BusAgents, b \in BusAgents :
       LET first == GetOrCreateChannel(bus, a, b, uuids)
           second == GetOrCreateChannel(first.bus, b, a, first.uuids)
       IN /\ second.channel = first.channel
          /\ second.bus = first.bus
          /\ second.uuids = first.uuids
          /\ ChannelPair(first.bus.channels[first.channel]) = {a, b}
  /\ \A i \in DOMAIN bus.channels, j \in DOMAIN bus.channels :
       ChannelPair(bus.channels[i]) = ChannelPair(bus.channels[j]) => i = j
  /\ \A i \in DOMAIN bus.channels :
       LET channel == bus.channels[i]
           key == IF AgentRank[channel.agent_a] <= AgentRank[channel.agent_b]
                  THEN <<channel.agent_a, channel.agent_b>>
                  ELSE <<channel.agent_b, channel.agent_a>>
       IN /\ channel.id = i
          /\ key \in DOMAIN bus.direct_channels
          /\ bus.direct_channels[key] = i
  /\ \A key \in DOMAIN bus.direct_channels :
       /\ AgentRank[key[1]] <= AgentRank[key[2]]
       /\ bus.direct_channels[key] \in DOMAIN bus.channels
       /\ ChannelPair(bus.channels[bus.direct_channels[key]]) = {key[1], key[2]}
  /\ sent.op = "get_or_create_channel" =>
       /\ sent.channel \in DOMAIN bus.channels
       /\ ChannelPair(bus.channels[sent.channel]) \in
            { {call[1], call[2]} : call \in ChannelCalls }

\* C19 witness: publish made the channel of A and B as (A, B) and sent a
\* message through it, and get_or_create_channel then returned that channel.
C19_Witness ==
  /\ sent.op = "get_or_create_channel"
  /\ sent.channel \in DOMAIN bus.channels
  /\ bus.channels[sent.channel].agent_a = "A"
  /\ bus.channels[sent.channel].agent_b = "B"
  /\ bus.channels[sent.channel].message_history # <<>>

\* the messages the step appended to the history of the channel id
NewMessages(id) ==
  LET before == IF id \in DOMAIN bus.channels
                THEN Len(bus.channels[id].message_history) ELSE 0
      after == bus'.channels[id].message_history
  IN SubSeq(after, before + 1, Len(after))

\* the messages the step appended to the channel of sender and recipient,
\* addressed to the recipient, counted
Delivered(sender, recipient) ==
  Cardinality({ <<id, k>> \in (DOMAIN bus'.channels) \X (1..MaxBusUuids + 1) :
                  /\ ChannelPair(bus'.channels[id]) = {sender, recipient}
                  /\ k <= Len(NewMessages(id))
                  /\ NewMessages(id)[k].sender_id = sender
                  /\ NewMessages(id)[k].recipient_id = recipient })

\* C20: a call publish(sender, topic, ...) appends exactly one message to
\* the channel of (sender, recipient) for every subscriber of the topic
\* other than the sender, none for any other agent, none addressed to the
\* sender, and returns one message id per subscriber other than the sender.
C20_PublishFanOut ==
  [][sent'.op = "publish" =>
       LET sender == sent'.sender
           subscribers ==
             IF sent'.topic \in DOMAIN bus.topic_channels
             THEN Range(bus.topic_channels[sent'.topic]) \ {sender}
             ELSE {}
       IN /\ Len(sent'.ids) = Cardinality(subscribers)
          /\ \A r \in BusAgents \ {sender} :
               Delivered(sender, r) = IF r \in subscribers THEN 1 ELSE 0
          /\ \A id \in DOMAIN bus'.channels, k \in 1..(MaxBusUuids + 1) :
               k <= Len(NewMessages(id)) =>
                 NewMessages(id)[k].recipient_id # sender]_vars

\* the callbacks that the last call ran with the message of the topic, in
\* the order of the calls
TopicCalls ==
  LET calls == SelectSeq(sent.calls,
                         LAMBDA c : c.recipient_id = "topic:" \o sent.topic)
  IN [k \in 1..Len(calls) |-> calls[k].callback]

\* C21: a call publish(sender, topic, ...) calls every callback registered
\* for the topic exactly once, whatever the subscribers of the topic are
\* (none ever, none left, only the sender).
C21_TopicCallbacksOnce ==
  sent.op = "publish" =>
    TopicCalls = IF sent.topic \in DOMAIN bus.callbacks
                 THEN bus.callbacks[sent.topic] ELSE <<>>

\* C22: send_message appends the message to the history of the channel
\* before any callback runs, calls every callback registered for the
\* message type once, in the order of registration, whether or not one of
\* them raises, keeps the message in the history and returns its id; with a
\* sender or a recipient outside the channel it raises, calls no callback
\* and leaves the bus as it was.
C22_SendMessage ==
  [][sent'.op = "send_message" =>
       LET channel == bus.channels[sent'.channel]
           history == bus'.channels[sent'.channel].message_history
           registered == IF "m" \in DOMAIN channel.callbacks
                         THEN channel.callbacks["m"] ELSE <<>>
       IN IF sent'.ok
          THEN /\ Len(sent'.ids) = 1
               /\ Len(history) = Len(channel.message_history) + 1
               /\ history[Len(history)].id = sent'.ids[1]
               /\ SubSeq(history, 1, Len(history) - 1) = channel.message_history
               /\ [k \in 1..Len(sent'.calls) |-> sent'.calls[k].callback] = registered
               /\ \A k \in 1..Len(sent'.calls) :
                    /\ sent'.calls[k].message = sent'.ids[1]
                    /\ sent'.ids[1] \in sent'.calls[k].recorded
          ELSE /\ sent'.ids = <<>>
               /\ sent'.calls = <<>>
               /\ bus' = bus]_vars

\* C22 witness: a message went through a channel with two callbacks, the
\* first of which raises, and both were called.
C22_Witness ==
  /\ sent.op = "send_message"
  /\ sent.ok
  /\ Len(sent.calls) = 2
  /\ sent.calls[1].callback = "raises"
  /\ sent.calls[2].callback = "unsubscribes"

\* the subscribers of the topic on the bus b, an unknown topic having none
Subscribers(b, topic) ==
  IF topic \in DOMAIN b.topic_channels THEN b.topic_channels[topic] ELSE <<>>

\* C23: the list of a topic holds each agent at most once; subscribe of a
\* subscribed agent and unsubscribe of an agent that is not subscribed, or
\* from an unknown topic, leave the bus as it is; a second subscribe and a
\* second unsubscribe change nothing after the first.
C23_SubscriptionIdempotent ==
  /\ \A t \in DOMAIN bus.topic_channels :
       \A j \in 1..Len(bus.topic_channels[t]), k \in 1..Len(bus.topic_channels[t]) :
         bus.topic_channels[t][j] = bus.topic_channels[t][k] => j = k
  /\ \A a \in BusAgents, t \in Topics \cup {"u"} :
       /\ a \in Range(Subscribers(bus, t)) => Subscribe(bus, a, t) = bus
       /\ a \notin Range(Subscribers(bus, t)) => Unsubscribe(bus, a, t) = bus
       /\ Subscribe(Subscribe(bus, a, t), a, t) = Subscribe(bus, a, t)
       /\ Unsubscribe(Unsubscribe(bus, a, t), a, t) = Unsubscribe(bus, a, t)
       /\ Len(Subscribers(Subscribe(bus, a, t), t)) =
            Len(Subscribers(bus, t)) + (IF a \in Range(Subscribers(bus, t)) THEN 0 ELSE 1)
       /\ a \notin Range(Subscribers(Unsubscribe(bus, a, t), t))

\* C23 witness: the topic t has the subscribers C and B, in that order, and
\* not A (so C was subscribed first, or B left and came back): a state where
\* subscribe of B and unsubscribe of A are the calls that change nothing.
C23_Witness ==
  /\ Subscribers(bus, "t") = <<"C", "B">>
  /\ Subscribe(bus, "B", "t") = bus
  /\ Unsubscribe(bus, "A", "t") = bus
  /\ Subscribers(Unsubscribe(bus, "C", "t"), "t") = <<"B">>

\* the ids found in the entries of the two indexes of the memory m
IndexedIds(m) ==
  UNION ({ m.tags_index[t] : t \in DOMAIN m.tags_index }
           \cup { m.context_index[c] : c \in DOMAIN m.context_index })

\* C24: forget(id) of a stored item returns True, takes the item out of the
\* item map and its id out of every entry of both indexes, and leaves the
\* other items alone; a second forget(id), and forget of an id that is not
\* stored, return False and leave the item map and the indexes as they are.
C24_ForgetIdempotent ==
  \A id \in 1..(MaxUuids + 1) :
    LET after == Forget(memory, id)
    IN IF id \in DOMAIN memory.memories
       THEN /\ ForgetReturns(memory, id)
            /\ DOMAIN after.memories = DOMAIN memory.memories \ {id}
            /\ \A k \in DOMAIN after.memories : after.memories[k] = memory.memories[k]
            /\ id \notin IndexedIds(after)
            /\ ~ForgetReturns(after, id)
            /\ Forget(after, id) = after
       ELSE /\ ~ForgetReturns(memory, id)
            /\ after = memory

\* C24 witness: items were stored with tags and none is left, and no id is
\* left in an index either (a purge of an expired item would have left its
\* id there): the last item went through forget.
C24_Witness ==
  /\ uuids > 0
  /\ DOMAIN memory.memories = {}
  /\ DOMAIN memory.tags_index # {}
  /\ IndexedIds(memory) = {}

\* the required skills of the role of the last evaluation that the agent of
\* the last evaluation meets
SkillsMet ==
  { k \in DOMAIN manager.roles[outcome.role].skills :
      Proficiency(EvalAgents[outcome.agent], k) >= manager.roles[outcome.role].skills[k] }

\* C25: the confidence that evaluate_agent_for_role returns is at least 0
\* and at most 1, and it is 0 when the agent meets none of the skills the
\* role requires.
C25_ConfidenceRange ==
  (outcome.op = "evaluate" /\ outcome.returned) =>
    /\ outcome.evaluation.confidence.den > 0
    /\ 0 <= outcome.evaluation.confidence.num
    /\ outcome.evaluation.confidence.num <= outcome.evaluation.confidence.den
    /\ SkillsMet = {} => outcome.evaluation.confidence.num = 0


\* C26: evaluate_agent_for_role reports qualified exactly when the agent is
\* at or above the minimum of every required skill and holds every required
\* permission; when the role requires at least one skill and every minimum
\* is above 0, the confidence of a qualified agent is exactly 1.
C26_Qualified ==
  (outcome.op = "evaluate" /\ outcome.returned) =>
    LET requirements == manager.roles[outcome.role]
        agent == EvalAgents[outcome.agent]
    IN /\ outcome.evaluation.qualified <=>
            /\ SkillsMet = DOMAIN requirements.skills
            /\ requirements.permissions \subseteq agent.permissions
       /\ ( /\ outcome.evaluation.qualified
            /\ DOMAIN requirements.skills # {}
            /\ \A k \in DOMAIN requirements.skills : requirements.skills[k] > 0 )
          => outcome.evaluation.confidence.num = outcome.evaluation.confidence.den

\* C26 witness: the role requires writing at 0.6 and the agent has writing
\* at 0.9; it is qualified with confidence 1.
C26_Witness ==
  /\ outcome.op = "evaluate"
  /\ outcome.returned
  /\ manager.roles[outcome.role].skills = [writing |-> 12]
  /\ EvalAgents[outcome.agent].skills = [writing |-> 18]
  /\ outcome.evaluation.qualified
  /\ outcome.evaluation.confidence.num = outcome.evaluation.confidence.den

\* C27: every assignment the RoleManager holds, active or in its history,
\* has a confidence of at least 0 and at most 1.
C27_ConfidenceClamped ==
  /\ \A id \in DOMAIN manager.role_assignments :
       /\ 0 <= manager.role_assignments[id].confidence
       /\ manager.role_assignments[id].confidence <= ConfidenceUnit
  /\ \A k \in 1..Len(manager.assignment_history) :
       /\ 0 <= manager.assignment_history[k].confidence
       /\ manager.assignment_history[k].confidence <= ConfidenceUnit

\* the ids of the assignments in the history of the manager m
HistoryIds(m) ==
  { m.assignment_history[k].id : k \in 1..Len(m.assignment_history) }

\* C28: no assignment id is both active and in the history; the history
\* only grows, at its end, by one entry per complete_assignment that
\* returns True and by nothing else, and its entries never change;
\* complete_assignment and revoke_assignment return True exactly for an
\* active id, and when they return False the manager and the teams stay as
\* they are.
C28_AssignmentBookkeeping ==
  [][/\ DOMAIN manager'.role_assignments \cap HistoryIds(manager') = {}
     /\ Len(manager'.assignment_history) >= Len(manager.assignment_history)
     /\ SubSeq(manager'.assignment_history, 1, Len(manager.assignment_history))
          = manager.assignment_history
     /\ Len(manager'.assignment_history) =
          Len(manager.assignment_history)
            + (IF outcome'.op = "complete_assignment" /\ outcome'.returned
               THEN 1 ELSE 0)
     /\ outcome'.op \in {"complete_assignment", "revoke_assignment"} =>
          /\ outcome'.returned <=> outcome'.id \in DOMAIN manager.role_assignments
          /\ outcome'.id \notin DOMAIN manager'.role_assignments
          /\ ~outcome'.returned => manager' = manager /\ teams' = teams
     /\ (outcome'.op = "complete_assignment" /\ outcome'.returned) =>
          manager'.assignment_history[Len(manager'.assignment_history)].id
            = outcome'.id]_vars

\* C28 witness: complete_assignment of an id that is in the history already
\* returned False.
C28_Witness ==
  /\ outcome.op = "complete_assignment"
  /\ ~outcome.returned
  /\ outcome.id \in HistoryIds(manager)

\* C29: after disband_team(T) has returned True, no active assignment made
\* by assign_role_to_team for T is left in the RoleManager.
C29_DisbandRevokesAll ==
  (outcome.op = "disband_team" /\ outcome.returned) =>
    \A id \in DOMAIN manager.role_assignments :
      manager.role_assignments[id].team_id # outcome.team

\* C30: execute_composition calls the tool of every step once, in the
\* declared order, whatever earlier tools did; it returns (it does not
\* raise) with a slot for every step id, and the slot of a step holds the
\* result of its tool, wrapped in a map when it is no map, or an error
\* record when the tool raised (the last step with that id, when the id
\* is declared twice).
C30_PartialResults ==
  executed.op = "execute_composition" =>
    LET steps == executed.composition.steps
    IN /\ ~executed.raised
       /\ Len(executed.invoked) = Len(steps)
       /\ \A k \in 1..Len(steps) :
            /\ executed.invoked[k].id = steps[k].id
            /\ executed.invoked[k].tool = steps[k].tool
       /\ DOMAIN executed.steps = { steps[k].id : k \in 1..Len(steps) }
       /\ \A k \in 1..Len(steps) :
            (\A j \in (k + 1)..Len(steps) : steps[j].id # steps[k].id) =>
              executed.steps[steps[k].id] =
                CASE executed.outcomes[k] = "dict" -> ("out" :> "v")
                  [] executed.outcomes[k] = "value" -> ("result" :> "v")
                  [] OTHER -> ("error" :> "boom")

\* C30 witness: the first of two steps raised, and the second was called
\* and has its result.
C30_Witness ==
  /\ executed.op = "execute_composition"
  /\ Len(executed.composition.steps) = 2
  /\ executed.outcomes[1] = "raises"
  /\ executed.outcomes[2] = "dict"
  /\ Len(executed.invoked) = 2
  /\ DOMAIN executed.steps = {"s1", "s2"}
  /\ executed.steps["s2"] = ("out" :> "v")
  /\ executed.steps["s1"] = ("error" :> "boom")

C32_YieldsAtToolCall ==
  \A i \in InstanceIds :
    (tasks[i].pc = "tool" /\ ready # <<>>) => ENABLED TaskStart

\* C33: start_workflow either adds a pending instance whose execution is
\* scheduled to begin at the initial step, or raises and adds no instance:
\* every pending instance of the registry has a task in the queue of the
\* event loop, set to begin at the initial step of its workflow.
C33_PendingIsScheduled ==
  \A i \in InstanceIds :
    instances[i].status = "pending"
      => /\ \E k \in 1..Len(ready) : ready[k] = i
         /\ tasks[i].pc = "scheduled"
         /\ tasks[i].step_id = InitialStepOf(WorkflowOf(i))

\* in this step the tool call of instance i raised: the exception reached
\* the handler of the step loop
ToolRaisedNow(i) ==
  /\ tasks[i].pc = "tool"
  /\ RaisedNow(i)
  /\ \E k \in (Len(instances[i].errors) + 1)..Len(instances'[i].errors) :
       \/ instances'[i].errors[k].error = "tool raised"
       \/ instances'[i].errors[k].message = <<"Step execution error", "tool raised">>

\* a step result that carries the execution time, the agent id and a status
Recorded34(result, agent_id, status) ==
  /\ <<"execution_time">> \in DOMAIN result
  /\ <<"agent_id">> \in DOMAIN result
  /\ result[<<"agent_id">>] = StrV(<<agent_id>>)
  /\ <<"status">> \in DOMAIN result
  /\ result[<<"status">>] = StrV(<<status>>)

\* C34: for a step with a tool, the result stored in step_results carries
\* the execution time, the executing agent id and the status success when
\* the tool returned, error when the tool raised, and the transition is
\* selected by this recorded status.
C34_RecordedStatus ==
  [][\A i \in InstanceIds :
       LET sid == tasks[i].step_id
       IN /\ (tasks[i].pc = "tool" /\ tasks'[i].pc = "step_completed")
               => Recorded34(tasks'[i].result, tasks[i].agent_id, "success")
          /\ (ReturnedNow(i) /\ Truthy(CurrentStep(i).tool_required))
               => /\ instances'[i].step_results[sid] = tasks[i].result
                  /\ LET n == ClaimedNext(WorkflowOf(i), sid,
                                          StatusOf(instances'[i].step_results[sid]))
                     IN IF n # None /\ FindStep(WorkflowOf(i), n) # 0
                        THEN hist'[i].started = Append(hist[i].started, n)
                        ELSE hist'[i].started = hist[i].started
          /\ ToolRaisedNow(i)
               => /\ sid \in DOMAIN instances'[i].step_results
                  /\ Recorded34(instances'[i].step_results[sid],
                                tasks[i].agent_id, "error")]_vars

\* in this step the outputs of the current step of instance i are mapped
\* into its context: the tool has returned, or the step has no tool and an
\* agent was found for it
MappedNow(i) ==
  /\ tasks'[i] # tasks[i]
  /\ \/ tasks[i].pc = "tool" /\ ~ToolRaisedNow(i)
     \/ /\ tasks[i].pc = "step_started"
        /\ ~Truthy(CurrentStep(i).tool_required)
        /\ AgentUsable(ResolveAgent(instances[i], CurrentStep(i), role_assignments),
                       agents)

\* C35: mapping the outputs of a step into the context never makes the step
\* fail, whatever the result and the context are: the step goes on to its
\* step_completed event, nothing is appended to the error log, and the
\* context is the one the mapping entries give, one after the other.
C35_MappingNeverFails ==
  [][\A i \in InstanceIds :
       MappedNow(i)
         => /\ ~RaisedNow(i)
            /\ tasks'[i].pc = "step_completed"
            /\ instances'[i].errors = instances[i].errors
            /\ instances'[i].context
                 = MapStepOutputsToContext(instances[i].context, tasks'[i].result,
                                           CurrentStep(i).output_mapping).tree]_vars

\* C36: when a step raises and is redirected through on_failure, the entry
\* appended to the error log carries the id of the step that raised.
C36_ErrorNamesFailingStep ==
  [][\A i \in InstanceIds :
       (RaisedNow(i) /\ Truthy(CurrentStep(i).on_failure))
         => /\ Len(instances'[i].errors) > Len(instances[i].errors)
            /\ instances'[i].errors[Len(instances[i].errors) + 1].step_id
                 = tasks[i].step_id]_vars

\* the steps the loop can go to from step id: the targets of its
\* transitions and its on_failure step
Successors(wf, id) ==
  TransitionTargets(wf, id)
    \cup (IF FindStep(wf, id) # 0 /\ Truthy(wf.steps[FindStep(wf, id)].on_failure)
          THEN {wf.steps[FindStep(wf, id)].on_failure} ELSE {})

\* the steps reached from the set ids in at most n moves
RECURSIVE ReachedFrom(_, _, _)
ReachedFrom(wf, ids, n) ==
  IF n = 0 THEN ids
  ELSE ReachedFrom(wf, ids \cup UNION {Successors(wf, id) : id \in ids}, n - 1)

\* the transition table and the on_failure redirects of wf contain a cycle
HasCycle(wf) ==
  \E k \in 1..Len(wf.steps) :
    wf.steps[k].id \in ReachedFrom(wf, Successors(wf, wf.steps[k].id), Len(wf.steps))

\* C37: when the event loop runs, every tool call returns or raises and no
\* workflow started so far has a cycle in its transitions and on_failure
\* redirects, every instance whose execution was scheduled eventually is
\* completed, failed or cancelled.
C37_Termination ==
  \A i \in 1..MaxPairInstances :
    (/\ i \in InstanceIds
     /\ tasks[i].pc = "scheduled"
     /\ \A j \in 1..i : ~HasCycle(WorkflowOf(j)))
      ~> (i \in InstanceIds /\ instances[i].status \in Terminal)

\* an instance of the acyclic W2 has run S1 and S3 to the end
C37_Witness ==
  \E i \in InstanceIds :
    /\ ~HasCycle(WorkflowOf(i))
    /\ instances[i].workflow_id = "W2"
    /\ hist[i].started = <<"S1", "S3">>
    /\ hist[i].outcomes = <<"raised", "returned">>
    /\ instances[i].status = "completed"
    /\ tasks[i].pc = "done"

\* an instance of W4, whose step S1 names itself in on_failure, is running
\* and has started S1 again after each raise
CycleKeepsRunning ==
  \E i \in InstanceIds :
    /\ HasCycle(WorkflowOf(i))
    /\ instances[i].status = "running"
    /\ Len(hist[i].started) = MaxStarted
    /\ \A k \in 1..Len(hist[i].outcomes) : hist[i].outcomes[k] = "raised"

\* C38: after any sequence of store, update and decay_all calls, every item
\* of an AgentMemory has an importance within [0, 1], whatever importance
\* was passed to store or update.
C38_ImportanceInRange ==
  \A k \in DOMAIN memory.memories :
    /\ memory.memories[k].importance >= 0
    /\ memory.memories[k].importance <= ImportanceUnit

\* the keys a store call removed: held before the call and not after it
Evicted == DOMAIN memory.memories \ DOMAIN memory'.memories

\* C39: a store call made while at least max_size items are held first
\* evicts exactly min(size, max(1, floor(0.05 * max_size))) items, each of
\* them of an importance not above that of any item kept, and the evicted
\* ids leave the tag index and the context index; a store call made below
\* capacity evicts nothing.
C39_EvictionPolicy ==
  [][uuids' = uuids + 1
       => LET size == Cardinality(DOMAIN memory.memories)
          IN IF size >= max_size
             THEN /\ Cardinality(Evicted)
                       = (IF size < RemovalCount THEN size ELSE RemovalCount)
                  /\ \A e \in Evicted :
                       /\ \A k \in DOMAIN memory.memories \ Evicted :
                            memory.memories[e].importance
                              <= memory.memories[k].importance
                       /\ \A t \in DOMAIN memory'.tags_index :
                            e \notin memory'.tags_index[t]
                       /\ \A c \in DOMAIN memory'.context_index :
                            e \notin memory'.context_index[c]
             ELSE Evicted = {}]_vars

\* C40: tool registries are per agent type: execute_tool on an agent whose
\* type had not registered the tool reports it as not registered, and a tool
\* is executed only when the executing agent holds every permission the tool
\* requires.
C40_RegistryPerAgentType ==
  called.op = "execute_tool"
    => /\ TypeOf(called.agent) \notin called.registered_by
            => called.result = "not registered"
       /\ called.result = "executed"
            => called.required_permissions \subseteq PermissionsOf(called.agent)

====
